---------------------------- MODULE Spec2Model ----------------------------
(***************************************************************************)
(* Restore of a backup tree into a target installation (tb-cli, restore).  *)
(* The target installation is the environment: it holds devices (with one  *)
(* credential and three attribute scopes each), customers and dashboards.  *)
(* Every file of a category directory is processed by its own asynchronous *)
(* callback; each await of a callback is one step of the model, and steps  *)
(* of different files interleave freely.                                   *)
(*                                                                         *)
(* Strings that the code takes apart (file names, display names, search    *)
(* texts) are sequences of symbols (a character, or the run "json");       *)
(* opaque strings (tokens, attribute keys and values) are TLA+ strings.    *)
(***************************************************************************)
EXTENDS Integers, Sequences, FiniteSets, TLC

\* ------------------------------------------------------------------ bounds
\* Number of consecutive restore runs of the same directory against the target.
MaxRuns == 2
\* Longest assignedCustomers list of a dashboard file.
MaxBlocks == 2

\* ------------------------------------------------------- program constants
\* e.response?.data?.errorCode === 31
DuplicateCode == 31
\* the error codes other than the duplicate code (a representative)
OtherCodes == {500}
\* let deviceId = null
Null == 0

\* --------------------------------------------------------- string helpers
D1 == <<"D", "1">>
D10 == <<"D", "1", "0">>
JsonExt == <<".", "json">>

\* file names written by the exporter: `${device.name}.json`
FileOf(name) == name \o JsonExt

\* String.prototype.split('.') : the pieces between the separators
RECURSIVE Split(_, _)
Split(s, sep) ==
    IF \A i \in 1..Len(s) : s[i] # sep
    THEN <<s>>
    ELSE LET i == CHOOSE j \in 1..Len(s) :
                      s[j] = sep /\ \A k \in 1..(j - 1) : s[k] # sep
         IN  <<SubSeq(s, 1, i - 1)>> \o Split(SubSeq(s, i + 1, Len(s)), sep)

\* Array.prototype.slice(0, -1) : all pieces but the last
SliceButLast(parts) == SubSeq(parts, 1, Len(parts) - 1)

\* Array.prototype.join('.')
RECURSIVE Join(_, _)
Join(parts, sep) ==
    IF Len(parts) = 0 THEN <<>>
    ELSE IF Len(parts) = 1 THEN parts[1]
    ELSE parts[1] \o <<sep>> \o Join(Tail(parts), sep)

\* const deviceName = file.split('.').slice(0, -1).join('.')
DeviceNameOfFileMutant(file) == Split(file, ".")[1]
DeviceNameOfFile(file) == Join(SliceButLast(Split(file, ".")), ".")

\* String.prototype.toLowerCase(), symbol by symbol
LowerCaseOf(c) ==
    CASE c = "A" -> "a" [] c = "B" -> "b" [] c = "C" -> "c" [] c = "D" -> "d"
      [] c = "M" -> "m" [] c = "N" -> "n" [] c = "X" -> "x" [] OTHER -> c
toLowerCase(s) == [i \in 1..Len(s) |-> LowerCaseOf(s[i])]

\* The platform's textSearch filter of a list request: a name passes when it
\* starts with the search text, letter case apart (the code sends the name as
\* textSearch and never compares the returned name with it).
TextSearchMatches(text, name) ==
    /\ Len(text) <= Len(name)
    /\ toLowerCase(SubSeq(name, 1, Len(text))) = toLowerCase(text)

\* The pages a list request { pageSize: 1, textSearch } can return: one of the
\* matching entities (the request names no sort order), or the empty page.
FirstPage(matching) ==
    IF matching = {} THEN {<<>>} ELSE {<<e>> : e \in matching}

\* A promise rejected with no handler attached: the runtime either only warns
\* and goes on, or ends the process (--unhandled-rejections, whose default is
\* "warn" before Node 15 and "throw" since).
RejectionModes == {"warn", "throw"}

\* ------------------------------------------------------------------- state
VARIABLES
    devices,        \* target: device id -> [name, type, credentials, attributes]
    nextId,         \* target: the next entity id the platform assigns
    devices0,       \* the target's devices before the first run
    devFiles,       \* devices/ directory: file name -> parsed content
    dpc,            \* per device file: the await its callback is suspended at
    deviceId,       \* per device file: let deviceId
    createErr,      \* per device file: errorCode of the failed saveDevice (Null: none)
    credentials,    \* per device file: the credential read by getDeviceCredentials
    credSubmitted,  \* per device file: the bodies posted by saveDeviceCredentials
    calls,          \* the requests issued in this run: [file, op, arg]
    console,        \* console.log records of this run: [file, op]
    run,            \* the number of the run in progress
    netFail,        \* some request, read or parse failed (a duplicate apart)
    customers,      \* target: customer id -> [title]
    dashboards,     \* target: dashboard id -> body
    dashboards0,    \* the target's dashboards before the run
    dashFiles,      \* dashboards/ directory: file name -> parsed content
    kpc,            \* per dashboard file: the await its callback is suspended at
    dashboard,      \* per dashboard file: const dashboard (mutated in place)
    pending,        \* per dashboard file: the lookups of the Promise.all not yet answered
    submitted,      \* per dashboard file: the bodies posted by saveDashboard
    unhandledRejections, \* what the runtime does with a rejection no handler takes
    account,        \* let account: the decoded token in force (setToken)
    platform,       \* source installation: what the requests of an export answer
    tree,           \* Tree Store below <baseDir>/tenants: path -> file content
    bpc,            \* backup(): the await the function is suspended at
    tenants,        \* let tenants
    tenantIx,       \* the tenant the for loop is at
    tenantAdmins,   \* Map: tenant id -> id of its first admin
    tenantTokens,   \* Map: tenant id -> token
    dirs,           \* per directory being wiped: the step its promise waits for
    cats,           \* per category promise: its state
    tasks,          \* per entity promise: its state
    got,            \* per device promise: the answers its Promise.all holds
    output,         \* console.log lines of the export: [tenant, line]
    faults,         \* history: the requests and file operations that failed
    cmdObj,         \* restore command: the category flags given on the command line
    present,        \* restore: the category directories the input directory holds
    rpc,            \* restore(): "restore" before its body ran, then "started" or "exit"
    listed,         \* restore: the directories handed to readdir
    widgetFiles,    \* widgets/ directory: file name -> parsed content
    wpc,            \* per widgets file: the await its callback is suspended at
    typeRequests,   \* per widgets file: the bodies posted by saveWidgetType
    typesLeft,      \* per widgets file: the saveWidgetType requests not yet answered
    bundles,        \* target: the widgets bundles created
    widgetTypes,    \* target: the widget types created
    cmd,            \* clone / label command: [op, dashboardName, deviceName, name]
    cpc,            \* clone() / label(): the await the function is suspended at
    local,          \* clone() / label(): const dashboard, device, labels, dashboardData
    posts,          \* clone() / label(): the bodies posted to 'dashboard'
    keychain,       \* keytar: [token, refreshToken] stored for the host
    apc,            \* the command's action: the await it is suspended at
    command,        \* the command given on the command line
    gpc,            \* the promises of git.add and git.commit: their states
    staged,         \* the git index: the files staged
    committed       \* the files of the snapshot commit (<<"none">>: no commit yet)

deviceVars == <<devFiles, dpc, deviceId, createErr, credentials, credSubmitted,
                console, run>>
dashVars == <<customers, dashboards, dashboards0, dashFiles, kpc, dashboard,
              pending, submitted>>
exportVars == <<account, platform, tree, bpc, tenants, tenantIx, tenantAdmins,
                tenantTokens, dirs, cats, tasks, got, output, faults>>
restoreVars == <<cmdObj, present, rpc, listed>>
widgetVars == <<widgetFiles, wpc, typeRequests, typesLeft, bundles, widgetTypes>>
derivedVars == <<cmd, cpc, local, posts>>
authVars == <<keychain, apc, command>>
gitVars == <<gpc, staged, committed>>
vars == <<devices, nextId, devices0, calls, netFail, deviceVars, dashVars,
          unhandledRejections, exportVars, restoreVars, widgetVars, derivedVars,
          authVars, gitVars>>

\* no export is in progress
NoExport ==
    /\ account = <<>> /\ platform = <<>> /\ tree = <<>> /\ bpc = "none"
    /\ tenants = <<>> /\ tenantIx = 0 /\ tenantAdmins = <<>> /\ tenantTokens = <<>>
    /\ dirs = <<>> /\ cats = <<>> /\ tasks = <<>> /\ got = <<>>
    /\ output = {} /\ faults = {}

\* the restore command is not in use (a category is run on its own)
NoRestoreCommand ==
    cmdObj = {} /\ present = {} /\ rpc = "none" /\ listed = {}

\* no widgets directory is restored
NoWidgets ==
    /\ widgetFiles = <<>> /\ wpc = <<>> /\ typeRequests = <<>> /\ typesLeft = <<>>
    /\ bundles = {} /\ widgetTypes = {}

\* neither clone nor label is run
NoDerived ==
    cmd = <<>> /\ cpc = "none" /\ local = <<>> /\ posts = <<>>

\* auth() is left out: the body of the command is run on its own
NoAuth ==
    keychain = <<>> /\ apc = "none" /\ command = "none"

\* no snapshot has been asked for
NoGit ==
    gpc = <<>> /\ staged = <<>> /\ committed = <<"none">>

\* ------------------------------------------------------ the device restore
\* the keys of a device file's attributes, in the order the code restores them
ScopeOrder == <<"server", "shared", "client">>
ScopeName == [server |-> "SERVER_SCOPE", shared |-> "SHARED_SCOPE",
              client |-> "CLIENT_SCOPE"]
Scopes == {"SERVER_SCOPE", "SHARED_SCOPE", "CLIENT_SCOPE"}

NoCredentials == [id |-> Null, deviceId |-> Null, credentialsType |-> "",
                  credentialsId |-> "", credentialsValue |-> ""]

\* getAttributesObject: attributesObject[key] = value, in list order
RECURSIVE getAttributesObject(_)
getAttributesObject(attributesArray) ==
    IF Len(attributesArray) = 0 THEN <<>>
    ELSE LET n == Len(attributesArray)
             rest == getAttributesObject(SubSeq(attributesArray, 1, n - 1))
             last == attributesArray[n]
         IN  [k \in DOMAIN rest \cup {last.key} |->
                 IF k = last.key THEN last.value ELSE rest[k]]

\* the platform's attribute write: the posted keys are upserted
MergeAttributes(old, posted) ==
    [k \in DOMAIN old \cup DOMAIN posted |->
        IF k \in DOMAIN posted THEN posted[k] ELSE old[k]]

\* if (e.response?.data?.errorCode === 31)
IsDuplicateMutant(code) == code # Null
IsDuplicate(code) == code = DuplicateCode

\* { ...credentials, credentialsId: device.accessToken }
RepairedCredentialsMutant(cred, accessToken) ==
    [id |-> cred.id, deviceId |-> cred.deviceId, credentialsType |-> "ACCESS_TOKEN",
     credentialsId |-> accessToken, credentialsValue |-> ""]
RepairedCredentials(cred, accessToken) ==
    [cred EXCEPT !.credentialsId = accessToken]

\* if (device.attributes.<scope>.length > 0)
ScopeNonEmptyMutant(attributesArray) == TRUE
ScopeNonEmpty(attributesArray) == Len(attributesArray) > 0

\* the next attribute write the callback awaits, from the i-th scope on
RECURSIVE NextScope(_, _)
NextScope(device, i) ==
    IF i > Len(ScopeOrder) THEN "done"
    ELSE IF ScopeNonEmpty(device.attributes[ScopeOrder[i]]) THEN ScopeOrder[i]
    ELSE NextScope(device, i + 1)

ScopeIndex(key) == CHOOSE i \in 1..Len(ScopeOrder) : ScopeOrder[i] = key

DeviceFiles == DOMAIN devFiles
DevicesNamed(name) == {d \in DOMAIN devices : devices[d].name = name}
DevicesMatching(text) ==
    {d \in DOMAIN devices : TextSearchMatches(text, devices[d].name)}

Call(f, op, arg) == [file |-> f, op |-> op, arg |-> arg]
Logged(f, op) == [file |-> f, op |-> op]

\* the continuation after the identity step: the attribute writes, or the end
AttributePhase(f) == NextScope(devFiles[f], 1)

UnchangedTarget == UNCHANGED <<devices, nextId>>
UnchangedFrame ==
    UNCHANGED <<devices0, devFiles, run, dashVars, unhandledRejections, exportVars,
                restoreVars, widgetVars, derivedVars,
                authVars, gitVars>>

\* a file whose text JSON.parse refuses
NotJson ==
    [accessToken |-> "", syntaxError |-> TRUE,
     attributes |-> [server |-> <<>>, shared |-> <<>>, client |-> <<>>]]

Unparsable(content) == "syntaxError" \in DOMAIN content

\* a failure met while a file is processed, kept beside the requests
Failure(f, op) == Call(f, "failure", op)

\* A rejection of the promise readFile(...).then(...) returns has no handler.
\* With "throw" the process ends: the callbacks still suspended never resume.
UnhandledRejection(pc, f) ==
    IF unhandledRejections = "throw"
    THEN [g \in DOMAIN pc |->
            IF g = f \/ pc[g] = "done" THEN "done" ELSE "exited"]
    ELSE [pc EXCEPT ![f] = "done"]

\* fsPromise.readFile(...).then(async content => { JSON.parse(content); ... }):
\* the callback starts and issues saveDevice
ReadDeviceFile(f) ==
    /\ dpc[f] = "read"
    /\ UnchangedTarget /\ UnchangedFrame
    /\ UNCHANGED <<deviceId, createErr, credentials, credSubmitted, console>>
    /\ \/ /\ ~Unparsable(devFiles[f])
          /\ dpc' = [dpc EXCEPT ![f] = "saveDevice"]
          /\ UNCHANGED <<calls, netFail>>
       \/ \* JSON.parse throws inside the try: catch (e) {} ends the callback
          /\ Unparsable(devFiles[f])
          /\ dpc' = [dpc EXCEPT ![f] = "done"]
          /\ calls' = calls \cup {Failure(f, "parse")}
          /\ netFail' = TRUE
       \/ \* readFile rejects: the callback never runs
          /\ dpc' = UnhandledRejection(dpc, f)
          /\ calls' = calls \cup {Failure(f, "readFile")}
          /\ netFail' = TRUE

\* catch (e) of saveDevice: the repair path for the duplicate code, else a log
SaveDeviceFailed(f, code) ==
    /\ createErr' = [createErr EXCEPT ![f] = code]
    /\ IF IsDuplicate(code)
       THEN /\ dpc' = [dpc EXCEPT ![f] = "getDevices"]
            /\ calls' = calls \cup {Call(f, "saveDevice", "error")}
            /\ console' = console
       ELSE /\ dpc' = [dpc EXCEPT ![f] = AttributePhase(f)]
            /\ calls' = calls \cup {Call(f, "saveDevice", "error"),
                                    Failure(f, "saveDevice")}
            /\ console' = console \cup {Logged(f, "saveDevice")}
    /\ UnchangedTarget
    /\ UNCHANGED <<deviceId, credentials, credSubmitted>>

\* await api.saveDevice({ name: deviceName, type: 'AT_CORE' }, device.accessToken)
SaveDevice(f) ==
    /\ dpc[f] = "saveDevice"
    /\ UnchangedFrame
    /\ LET deviceName == DeviceNameOfFile(f) IN
       \/ \* the platform refuses a second device of the same name
          /\ DevicesNamed(deviceName) # {}
          /\ SaveDeviceFailed(f, DuplicateCode)
          /\ UNCHANGED netFail
       \/ \* the platform creates the device with the token as its credential
          /\ DevicesNamed(deviceName) = {}
          /\ devices' = [d \in DOMAIN devices \cup {nextId} |->
                IF d = nextId
                THEN [name |-> deviceName, type |-> "AT_CORE",
                      credentials |-> [id |-> nextId, deviceId |-> nextId,
                                       credentialsType |-> "ACCESS_TOKEN",
                                       credentialsId |-> devFiles[f].accessToken,
                                       credentialsValue |-> ""],
                      attributes |-> [s \in Scopes |-> <<>>]]
                ELSE devices[d]]
          /\ nextId' = nextId + 1
          /\ deviceId' = [deviceId EXCEPT ![f] = nextId]
          /\ calls' = calls \cup {Call(f, "saveDevice", "created")}
          /\ dpc' = [dpc EXCEPT ![f] = AttributePhase(f)]
          /\ UNCHANGED <<createErr, credentials, credSubmitted, console, netFail>>
       \/ \* the request fails with another code
          /\ \E code \in OtherCodes : SaveDeviceFailed(f, code)
          /\ netFail' = TRUE

\* await api.getDevices({ pageSize: 1, textSearch: deviceName });
\* deviceId = devices[0].id.id
GetDevices(f) ==
    /\ dpc[f] = "getDevices"
    /\ UnchangedTarget /\ UnchangedFrame
    /\ UNCHANGED <<createErr, credentials, credSubmitted, console>>
    /\ \/ \E page \in FirstPage(DevicesMatching(DeviceNameOfFile(f))) :
            /\ IF Len(page) = 0
               THEN \* devices[0] is undefined: the TypeError ends the callback
                    /\ dpc' = [dpc EXCEPT ![f] = "done"]
                    /\ UNCHANGED deviceId
               ELSE /\ deviceId' = [deviceId EXCEPT ![f] = page[1]]
                    /\ dpc' = [dpc EXCEPT ![f] = "getDeviceCredentials"]
            /\ calls' = calls \cup {Call(f, "getDevices", "")}
            /\ UNCHANGED netFail
       \/ \* the request fails: thrown out of the catch block, swallowed outside
          /\ dpc' = [dpc EXCEPT ![f] = "done"]
          /\ calls' = calls \cup {Call(f, "getDevices", ""), Failure(f, "getDevices")}
          /\ netFail' = TRUE
          /\ UNCHANGED deviceId

\* const { data: credentials } = await api.getDeviceCredentials(deviceId)
GetDeviceCredentials(f) ==
    /\ dpc[f] = "getDeviceCredentials"
    /\ UnchangedTarget /\ UnchangedFrame
    /\ UNCHANGED <<deviceId, createErr, credSubmitted>>
    /\ \/ /\ credentials' = [credentials EXCEPT ![f] = devices[deviceId[f]].credentials]
          /\ dpc' = [dpc EXCEPT ![f] = "saveDeviceCredentials"]
          /\ calls' = calls \cup {Call(f, "getDeviceCredentials", "")}
          /\ UNCHANGED <<console, netFail>>
       \/ /\ console' = console \cup {Logged(f, "getDeviceCredentials")}
          /\ calls' = calls \cup {Call(f, "getDeviceCredentials", ""),
                                  Failure(f, "getDeviceCredentials")}
          /\ dpc' = [dpc EXCEPT ![f] = AttributePhase(f)]
          /\ netFail' = TRUE
          /\ UNCHANGED credentials

\* await api.saveDeviceCredentials({ ...credentials, credentialsId: device.accessToken })
SaveDeviceCredentials(f) ==
    /\ dpc[f] = "saveDeviceCredentials"
    /\ dpc' = [dpc EXCEPT ![f] = AttributePhase(f)]
    /\ UnchangedFrame
    /\ UNCHANGED <<nextId, deviceId, createErr, credentials>>
    /\ LET body == RepairedCredentials(credentials[f], devFiles[f].accessToken) IN
       /\ credSubmitted' = [credSubmitted EXCEPT ![f] = Append(@, body)]
       /\ \/ /\ devices' = [devices EXCEPT ![body.deviceId].credentials = body]
             /\ calls' = calls \cup {Call(f, "saveDeviceCredentials", "")}
             /\ UNCHANGED <<console, netFail>>
          \/ /\ console' = console \cup {Logged(f, "saveDeviceCredentials")}
             /\ calls' = calls \cup {Call(f, "saveDeviceCredentials", ""),
                                     Failure(f, "saveDeviceCredentials")}
             /\ netFail' = TRUE
             /\ UNCHANGED devices

\* await api.saveDeviceAttributes(deviceId, '<SCOPE>', getAttributesObject(...))
SaveDeviceAttributes(f) ==
    /\ dpc[f] \in {ScopeOrder[i] : i \in 1..Len(ScopeOrder)}
    /\ UnchangedFrame
    /\ UNCHANGED <<nextId, deviceId, createErr, credentials, credSubmitted, console>>
    /\ LET key == dpc[f]
           scope == ScopeName[key]
           posted == getAttributesObject(devFiles[f].attributes[key])
           write == Call(f, "saveDeviceAttributes", scope)
           failure == Failure(f, "saveDeviceAttributes")
       IN  IF deviceId[f] \notin DOMAIN devices
           THEN \* no such device (deviceId is null): the request is refused,
                \* the rejection ends the callback in the outer catch
                /\ dpc' = [dpc EXCEPT ![f] = "done"]
                /\ calls' = calls \cup {write, failure}
                /\ UNCHANGED <<devices, netFail>>
           ELSE \/ /\ devices' = [devices EXCEPT
                         ![deviceId[f]].attributes[scope] = MergeAttributes(@, posted)]
                   /\ dpc' = [dpc EXCEPT ![f] = NextScope(devFiles[f], ScopeIndex(key) + 1)]
                   /\ calls' = calls \cup {write}
                   /\ UNCHANGED netFail
                \/ /\ dpc' = [dpc EXCEPT ![f] = "done"]
                   /\ calls' = calls \cup {write, failure}
                   /\ netFail' = TRUE
                   /\ UNCHANGED devices

\* the same directory is restored again once every callback of the run has ended
NextRun ==
    /\ \A f \in DeviceFiles : dpc[f] = "done"
    /\ run < MaxRuns
    /\ run' = run + 1
    /\ dpc' = [f \in DeviceFiles |-> "read"]
    /\ deviceId' = [f \in DeviceFiles |-> Null]
    /\ createErr' = [f \in DeviceFiles |-> Null]
    /\ credentials' = [f \in DeviceFiles |-> NoCredentials]
    /\ credSubmitted' = [f \in DeviceFiles |-> <<>>]
    /\ calls' = {}
    /\ console' = {}
    /\ UNCHANGED <<devices, nextId, devices0, devFiles, netFail, dashVars,
                   unhandledRejections, exportVars, restoreVars, widgetVars,
                   derivedVars, authVars, gitVars>>

\* --------------------------------------------------------- initial states
Attr(k, v) == [key |-> k, value |-> v]

\* the contents a device file can have: { accessToken, attributes }
DeviceBodies(token) ==
    { [accessToken |-> token,
       attributes |-> [server |-> sv, shared |-> sh, client |-> cl]] :
         sv \in {<<>>, <<Attr("k", "new")>>},
         sh \in {<<>>, <<Attr("k", "a"), Attr("k", "b")>>},
         cl \in {<<>>} }

\* a device the target holds before the restore
TargetDevice(id, name, ctype, token) ==
    [name |-> name, type |-> "AT_CORE",
     credentials |-> [id |-> id, deviceId |-> id, credentialsType |-> ctype,
                      credentialsId |-> token, credentialsValue |-> "v"],
     attributes |-> [s \in Scopes |-> [k \in {"k"} |-> "old"]]]

TargetPopulations ==
    { <<>>,
      <<TargetDevice(1, D1, "X509_CERTIFICATE", "t0")>>,
      <<TargetDevice(1, D10, "ACCESS_TOKEN", "t1")>>,
      <<TargetDevice(1, D1, "X509_CERTIFICATE", "t0"),
        TargetDevice(2, D10, "ACCESS_TOKEN", "t1")>> }

\* what the second file of a two-file directory holds
SiblingBody ==
    [accessToken |-> "tB",
     attributes |-> [server |-> <<>>, shared |-> <<>>, client |-> <<Attr("c", "new")>>]]

DeviceDirectories ==
    { [f \in {FileOf(D1)} |-> b] : b \in DeviceBodies("tA") }
    \cup
    { [f \in {FileOf(D1), FileOf(D10)} |->
            IF f = FileOf(D1) THEN NotJson ELSE SiblingBody] }
    \cup
    { [f \in {FileOf(D1), FileOf(D10)} |-> IF f = FileOf(D1) THEN b ELSE SiblingBody] :
        b \in DeviceBodies("tA") }

InitDevices ==
    /\ devices \in TargetPopulations
    /\ nextId = Len(devices) + 1
    /\ devices0 = devices
    /\ devFiles \in DeviceDirectories
    /\ dpc = [f \in DeviceFiles |-> "read"]
    /\ deviceId = [f \in DeviceFiles |-> Null]
    /\ createErr = [f \in DeviceFiles |-> Null]
    /\ credentials = [f \in DeviceFiles |-> NoCredentials]
    /\ credSubmitted = [f \in DeviceFiles |-> <<>>]
    /\ calls = {}
    /\ console = {}
    /\ run = 1
    /\ netFail = FALSE
    /\ unhandledRejections \in RejectionModes
    /\ NoExport /\ NoRestoreCommand /\ NoWidgets /\ NoDerived /\ NoAuth /\ NoGit
    /\ customers = <<>>
    /\ dashboards = <<>>
    /\ dashboards0 = <<>>
    /\ dashFiles = <<>>
    /\ kpc = <<>>
    /\ dashboard = <<>>
    /\ pending = <<>>
    /\ submitted = <<>>

NextDevices ==
    \/ \E f \in DeviceFiles : ReadDeviceFile(f)
    \/ \E f \in DeviceFiles : SaveDevice(f)
    \/ \E f \in DeviceFiles : GetDevices(f)
    \/ \E f \in DeviceFiles : GetDeviceCredentials(f)
    \/ \E f \in DeviceFiles : SaveDeviceCredentials(f)
    \/ \E f \in DeviceFiles : SaveDeviceAttributes(f)
    \/ NextRun

SpecDevices == InitDevices /\ [][NextDevices]_vars

\* --------------------------------------------------- the dashboards restore
DashboardFiles == DOMAIN dashFiles
CustomersMatching(text) ==
    {c \in DOMAIN customers : TextSearchMatches(text, customers[c].title)}

\* delete dashboard.id; delete dashboard.createdTime; delete dashboard.tenantId
StripSourceFieldsMutant(body) == [k \in DOMAIN body \ {"createdTime", "tenantId"} |-> body[k]]
StripSourceFields(body) ==
    [k \in DOMAIN body \ {"id", "createdTime", "tenantId"} |-> body[k]]

\* filter.type === 'singleEntity' && filter.singleEntity.entityType === 'DEVICE'
IsDeviceAlias(entityAlias) ==
    /\ entityAlias.filter.type = "singleEntity"
    /\ entityAlias.filter.singleEntity.entityType = "DEVICE"

\* the aliases whose callback awaits a getDevices lookup
DeviceAliasKeys(body) ==
    {key \in DOMAIN body.configuration.entityAliases :
        IsDeviceAlias(body.configuration.entityAliases[key])}

\* Array.prototype.splice(index, 1), index counted from 1 here
SpliceOne(list, index) ==
    IF index > Len(list) THEN list
    ELSE SubSeq(list, 1, index - 1) \o SubSeq(list, index + 1, Len(list))

\* a lookup of the Promise.all in flight: [kind, key] (key: alias key or index)
AliasLookup(key) == [kind |-> "alias", key |-> key, index |-> Null]
CustomerLookup(index) == [kind |-> "customer", key |-> "", index |-> index]

\* if (dashboard.assignedCustomers) await Promise.all(assignedCustomers.map(...))
\* : the lookups issued for the blocks, one per index of the list as it is then
CustomerLookups(body) ==
    IF "assignedCustomers" \in DOMAIN body
    THEN {CustomerLookup(i) : i \in 1..Len(body.assignedCustomers)}
    ELSE {}

\* where the callback is suspended once the alias lookups are settled
AfterAliases(f, body) ==
    /\ pending' = [pending EXCEPT ![f] = CustomerLookups(body)]
    /\ kpc' = [kpc EXCEPT ![f] =
          IF CustomerLookups(body) = {} THEN "saveDashboard" ELSE "customers"]

UnchangedDevicesSide ==
    UNCHANGED <<devices, nextId, devices0, deviceVars, unhandledRejections,
                exportVars, restoreVars, widgetVars, derivedVars,
                authVars, gitVars>>

\* readFile(...).then(async content => { JSON.parse; delete ...; Promise.all(map) })
ReadDashboardFile(f) ==
    /\ kpc[f] = "read"
    /\ UnchangedDevicesSide
    /\ UNCHANGED <<customers, dashboards, dashboards0, dashFiles, submitted>>
    /\ \/ LET body == StripSourceFields(dashFiles[f]) IN
          /\ dashboard' = [dashboard EXCEPT ![f] = body]
          /\ IF DeviceAliasKeys(body) # {}
             THEN /\ pending' = [pending EXCEPT ![f] =
                        {AliasLookup(key) : key \in DeviceAliasKeys(body)}]
                  /\ kpc' = [kpc EXCEPT ![f] = "aliases"]
             ELSE AfterAliases(f, body)
          /\ UNCHANGED <<calls, netFail>>
       \/ \* readFile rejects: the callback never runs
          /\ kpc' = UnhandledRejection(kpc, f)
          /\ calls' = calls \cup {Failure(f, "readFile")}
          /\ netFail' = TRUE
          /\ UNCHANGED <<dashboard, pending>>

\* await api.getDevices({ pageSize: 1, textSearch: deviceName });
\* if (devices[0]) ...filter.singleEntity.id = devices[0].id.id
ResolveAlias(f, key) ==
    /\ kpc[f] = "aliases"
    /\ AliasLookup(key) \in pending[f]
    /\ UnchangedDevicesSide
    /\ UNCHANGED <<customers, dashboards, dashboards0, dashFiles, submitted>>
    /\ \/ \E page \in FirstPage(DevicesMatching(
                          dashboard[f].configuration.entityAliases[key].alias)) :
            LET body == IF Len(page) = 0 THEN dashboard[f]
                        ELSE [dashboard[f] EXCEPT
                                !.configuration.entityAliases[key].filter.singleEntity.id
                                    = page[1]]
                left == pending[f] \ {AliasLookup(key)}
            IN  /\ dashboard' = [dashboard EXCEPT ![f] = body]
                /\ IF left = {} THEN AfterAliases(f, body)
                   ELSE /\ pending' = [pending EXCEPT ![f] = left]
                        /\ UNCHANGED kpc
                /\ calls' = calls \cup {Call(f, "getDevices", key)}
                /\ UNCHANGED netFail
       \/ \* the lookup fails: Promise.all rejects, catch (e) {} ends the callback
          /\ kpc' = [kpc EXCEPT ![f] = "done"]
          /\ calls' = calls \cup {Call(f, "getDevices", key), Failure(f, "getDevices")}
          /\ pending' = [pending EXCEPT ![f] = {}]
          /\ netFail' = TRUE
          /\ UNCHANGED dashboard

\* await api.getCustomers({ pageSize: 1, textSearch: title });
\* if (customers[0]) assignedCustomers[index].customerId.id = customers[0].id.id
\* else assignedCustomers.splice(index, 1)
ResolveCustomer(f, index) ==
    /\ kpc[f] = "customers"
    /\ CustomerLookup(index) \in pending[f]
    /\ UnchangedDevicesSide
    /\ UNCHANGED <<customers, dashboards, dashboards0, dashFiles, submitted>>
    /\ LET title == dashFiles[f].assignedCustomers[index].title  \* bound by map()
           list == dashboard[f].assignedCustomers
           left == pending[f] \ {CustomerLookup(index)}
       IN
       \/ \E page \in FirstPage(CustomersMatching(title)) :
            /\ calls' = calls \cup {Call(f, "getCustomers", "")}
            /\ UNCHANGED netFail
            /\ IF Len(page) > 0 /\ index > Len(list)
               THEN \* assignedCustomers[index] is undefined: the TypeError rejects
                    \* the Promise.all, catch (e) {} ends the callback
                    /\ kpc' = [kpc EXCEPT ![f] = "done"]
                    /\ pending' = [pending EXCEPT ![f] = {}]
                    /\ UNCHANGED dashboard
               ELSE /\ dashboard' = [dashboard EXCEPT ![f].assignedCustomers =
                          IF Len(page) > 0
                          THEN [list EXCEPT ![index].customerId.id = page[1]]
                          ELSE SpliceOne(list, index)]
                    /\ pending' = [pending EXCEPT ![f] = left]
                    /\ kpc' = [kpc EXCEPT ![f] =
                          IF left = {} THEN "saveDashboard" ELSE "customers"]
       \/ /\ kpc' = [kpc EXCEPT ![f] = "done"]
          /\ pending' = [pending EXCEPT ![f] = {}]
          /\ calls' = calls \cup {Call(f, "getCustomers", ""), Failure(f, "getCustomers")}
          /\ netFail' = TRUE
          /\ UNCHANGED dashboard

\* the platform's POST /dashboard: a body with the id of a dashboard it holds
\* replaces that dashboard, any other body becomes a new dashboard
PlatformSaveDashboard(body) ==
    IF "id" \in DOMAIN body /\ body.id \in DOMAIN dashboards
    THEN /\ dashboards' = [dashboards EXCEPT ![body.id] = body]
         /\ UNCHANGED nextId
    ELSE /\ dashboards' = [d \in DOMAIN dashboards \cup {nextId} |->
               IF d = nextId THEN body ELSE dashboards[d]]
         /\ nextId' = nextId + 1

\* await api.saveDashboard(dashboard)
SaveDashboard(f) ==
    /\ kpc[f] = "saveDashboard"
    /\ kpc' = [kpc EXCEPT ![f] = "done"]
    /\ submitted' = [submitted EXCEPT ![f] = Append(@, dashboard[f])]
    /\ UNCHANGED <<devices, devices0, deviceVars, unhandledRejections, exportVars,
                   restoreVars, widgetVars, derivedVars,
                   authVars, gitVars>>
    /\ UNCHANGED <<customers, dashboards0, dashFiles, dashboard, pending>>
    /\ \/ /\ PlatformSaveDashboard(dashboard[f])
          /\ calls' = calls \cup {Call(f, "saveDashboard", "")}
          /\ UNCHANGED netFail
       \/ /\ calls' = calls \cup {Call(f, "saveDashboard", ""), Failure(f, "saveDashboard")}
          /\ netFail' = TRUE
          /\ UNCHANGED <<dashboards, nextId>>

\* initial states of the dashboards restore
CA == <<"A">>
CB == <<"B">>

DeviceAlias(name, id) ==
    [alias |-> name,
     filter |-> [type |-> "singleEntity",
                 singleEntity |-> [entityType |-> "DEVICE", id |-> id]]]
AssetAlias(name, id) ==
    [alias |-> name,
     filter |-> [type |-> "singleEntity",
                 singleEntity |-> [entityType |-> "ASSET", id |-> id]]]
Block(title, id) == [title |-> title, customerId |-> [id |-> id]]

\* the entityAliases a dashboard file can hold (the ids are the source's)
AliasSets ==
    { [a1 |-> DeviceAlias(D1, 91)],
      [a1 |-> DeviceAlias(D1, 91), a2 |-> AssetAlias(D1, 93)],
      [a1 |-> DeviceAlias(D1, 91), a2 |-> DeviceAlias(D10, 92)] }

\* the assignedCustomers lists a dashboard file can hold
AssignedLists ==
    UNION { { [i \in 1..n |-> Block(t[i], 80 + i)] : t \in [1..n -> {CA, CB}] } :
            n \in 0..MaxBlocks }

DashboardBase(aliases) ==
    [id |-> 71, createdTime |-> 1000, tenantId |-> 61, name |-> "Main",
     configuration |-> [entityAliases |-> aliases,
                        widgets |-> [w1 |-> [deviceId |-> 91]]]]

WithCustomers(body, list) ==
    [k \in DOMAIN body \cup {"assignedCustomers"} |->
        IF k = "assignedCustomers" THEN list ELSE body[k]]

DashboardBodies ==
    { DashboardBase(a) : a \in AliasSets }
    \cup { WithCustomers(DashboardBase(a), l) : a \in AliasSets, l \in AssignedLists }

DashboardDirectories ==
    { [f \in {<<"M", ".", "json">>} |-> b] : b \in DashboardBodies }

CustomerPopulations == { <<>>, [c \in {51} |-> [title |-> CA]] }

\* the target may be the installation the backup was taken from
DashboardPopulations ==
    { <<>>, [d \in {71} |-> DashboardBase([a1 |-> DeviceAlias(D1, 91)])] }

InitDashboards ==
    /\ devices \in TargetPopulations
    /\ nextId = Len(devices) + 1
    /\ devices0 = devices
    /\ devFiles = <<>>
    /\ dpc = <<>>
    /\ deviceId = <<>>
    /\ createErr = <<>>
    /\ credentials = <<>>
    /\ credSubmitted = <<>>
    /\ calls = {}
    /\ console = {}
    /\ run = 1
    /\ netFail = FALSE
    /\ unhandledRejections \in RejectionModes
    /\ NoExport /\ NoRestoreCommand /\ NoWidgets /\ NoDerived /\ NoAuth /\ NoGit
    /\ customers \in CustomerPopulations
    /\ dashboards \in DashboardPopulations
    /\ dashboards0 = dashboards
    /\ dashFiles \in DashboardDirectories
    /\ kpc = [f \in DashboardFiles |-> "read"]
    /\ dashboard = [f \in DashboardFiles |-> <<>>]
    /\ pending = [f \in DashboardFiles |-> {}]
    /\ submitted = [f \in DashboardFiles |-> <<>>]

AliasKeys == {"a1", "a2"}

NextDashboards ==
    \/ \E f \in DashboardFiles : ReadDashboardFile(f)
    \/ \E f \in DashboardFiles : \E key \in AliasKeys : ResolveAlias(f, key)
    \/ \E f \in DashboardFiles : \E index \in 1..MaxBlocks : ResolveCustomer(f, index)
    \/ \E f \in DashboardFiles : SaveDashboard(f)

SpecDashboards == InitDashboards /\ [][NextDashboards]_vars

\* ------------------------------------------------------------- the export
\* const dirs = ['ruleChains', 'widgets', 'dashboards', 'devices', 'customers']
Categories == {"ruleChains", "widgets", "dashboards", "devices", "customers"}

\* the tenant id the platform gives the system widget bundles
SystemTenant == "SYS"

\* The promise of one entity is named <<kind, tenant id, entity id>>. Besides
\* the categories the kinds are "customerUsers" (the getEntityUsers promise of
\* a customer), "users" (backupCustomerUsers), "tenants", "tenantUsers" (the
\* getEntityUsers promise of a tenant) and "admins" (backupTenantUsers).
Kind(k) == k[1]
TenantId(k) == k[2]
EntityId(k) == k[3]

TenantSet == {platform.tenants[i] : i \in 1..Len(platform.tenants)}

Collection(kind) ==
    CASE kind \in {"customers", "customerUsers"} -> platform.customers
      [] kind \in {"users", "admins"} -> platform.users
      [] kind \in {"tenants", "tenantUsers"} -> TenantSet
      [] OTHER -> platform[kind]

Entity(k) == CHOOSE e \in Collection(Kind(k)) : e.id = EntityId(k)

TenantName(id) == (CHOOSE t \in TenantSet : t.id = id).name

\* the users getEntityUsers answers for a customer or for a tenant
EntityUsers(entityType, id) ==
    IF entityType = "customer"
    THEN {u \in platform.users : u.customerId = id}
    ELSE {u \in platform.users : u.tenantId = id /\ u.customerId = SystemTenant}

\* what a list request answers under the token in force: the tenant's own
\* entities, and for widget bundles the system bundles as well
Listing(category) ==
    {e \in platform[category] :
        \/ e.tenantId = account.tenantId
        \/ category = "widgets" /\ e.tenantId = SystemTenant}

\* .filter(widgetBundle => account.tenantId === widgetBundle.tenantId.id)
OwnBundleMutant(widgetBundle) == TRUE
OwnBundle(widgetBundle) == account.tenantId = widgetBundle.tenantId

\* `${entity.name}.json` (`${widgetBundle.title}.json` for a widget bundle)
FileNameMutant(k) == FileOf(<<EntityId(k)>>)
FileName(k) ==
    FileOf(IF Kind(k) = "widgets" THEN Entity(k).title ELSE Entity(k).name)

\* path.join(tenantDir, '<category>', `${entity.name}.json`) and its likes,
\* below <baseDir>/tenants
PathOf(k) ==
    LET tenantDir == TenantName(TenantId(k))
    IN  CASE Kind(k) = "tenants" -> <<FileName(k)>>
          [] Kind(k) = "admins" -> <<tenantDir, "tenantAdmins", FileName(k)>>
          [] Kind(k) = "users" ->
                <<tenantDir, "customers",
                  (CHOOSE c \in platform.customers :
                      c.id = Entity(k).customerId).name,
                  FileName(k)>>
          [] OTHER -> <<tenantDir, Kind(k), FileName(k)>>

\* item => { delete item.lastUpdateTs }
WithoutLastUpdateTsMutant(item) == item
WithoutLastUpdateTs(item) == [field \in DOMAIN item \ {"lastUpdateTs"} |-> item[field]]

\* getDeviceAttributesByScope(deviceId, scope), each item stripped
ScopeItems(device, scope) ==
    [i \in 1..Len(device.attributes[scope]) |->
        WithoutLastUpdateTs(device.attributes[scope][i])]

\* { accessToken: credentials.credentialsId, attributes: { server, shared, client } }
DeviceFile(device) ==
    [accessToken |-> device.credentials.credentialsId,
     attributes |-> [key \in DOMAIN ScopeName |-> ScopeItems(device, ScopeName[key])]]

\* getRuleChainById: axios.get(`/ruleChain/${id}/metadata`)
RuleChainMetaData(ruleChain) ==
    [ruleChainId |-> ruleChain.id, nodes |-> <<>>, connections |-> <<>>]

\* JSON.stringify(data, undefined, 2) of the answer: the body as it was fetched
\* (getWidgetBundlesData answers the widget types of the bundle)
FileContent(k) ==
    CASE Kind(k) = "devices" -> DeviceFile(Entity(k))
      [] Kind(k) = "widgets" -> Entity(k).widgetTypes
      [] Kind(k) = "ruleChains" -> RuleChainMetaData(Entity(k))
      [] OTHER -> Entity(k)

\* fsPromise.rm(currentDir, { recursive: true, force: true })
UnderDirectory(p, dir) == Len(p) > Len(dir) /\ SubSeq(p, 1, Len(dir)) = dir
RemoveDirectory(store, dir) ==
    [p \in {q \in DOMAIN store : ~UnderDirectory(q, dir)} |-> store[p]]

\* fsPromise.writeFile(path, text)
WriteFile(store, p, content) ==
    [q \in DOMAIN store \cup {p} |-> IF q = p THEN content ELSE store[q]]

\* jwtDecode(token) of the token getUserToken issues for a user
Token(userId) == <<"jwt", userId>>
jwtDecode(token) ==
    LET user == CHOOSE u \in platform.users : u.id = token[2]
    IN  [scopes |-> <<"TENANT_ADMIN">>, userId |-> user.id, tenantId |-> user.tenantId]

\* ------------------------------------------------- the export: its steps
Running == bpc \notin {"none", "exited"}

Current == tenants[tenantIx]

Fault(op, k) == [op |-> op, on |-> k]
Line(tenantId, text) == [tenant |-> tenantId, line |-> text]

CompletedLine ==
    [tenants |-> "Tenant backup completed!",
     ruleChains |-> "Rule Chains backup completed!",
     widgets |-> "Widgets backup completed!",
     dashboards |-> "Dashboards backup completed!",
     devices |-> "Devices backup completed!",
     customers |-> "Customers backup completed!"]

\* a rejection no handler takes ends the process under "throw"
Unhandled(position) == IF unhandledRejections = "throw" THEN "exited" ELSE position

\* backup() itself rejects: await backup(...) in the command's action rejects
\* in turn, and nothing handles that rejection
BackupRejects ==
    IF bpc \in {"rejected", "done"} THEN bpc ELSE Unhandled("rejected")

\* the promises a category's Promise.all waits for
FanOut(c) ==
    {k \in DOMAIN tasks :
        CASE c = "tenants" -> Kind(k) \in {"tenants", "tenantUsers"}
          [] c = "customers" ->
                Kind(k) \in {"customers", "customerUsers"} /\ TenantId(k) = Current.id
          [] OTHER -> Kind(k) = c /\ TenantId(k) = Current.id}

Extend(f, keys, value) ==
    [k \in DOMAIN f \cup keys |-> IF k \in keys THEN value ELSE f[k]]

\* const token = tenantTokens.get(tenant.id.id); if (token) setToken(token)
AccountForMutant(tenant) == account
AccountFor(tenant) ==
    IF tenant.id \in DOMAIN tenantTokens
    THEN jwtDecode(tenantTokens[tenant.id])
    ELSE account

\* for (const tenant of tenants) { token = tenantTokens.get(tenant.id.id);
\* if (token) setToken(token); await fsPromise.mkdir(tenantDir, ...) ... }
\* git.add(...); git.commit(...); console.log('done!'): both promises are
\* created and neither is awaited
LoopHead(list, ix) ==
    /\ tenantIx' = ix
    /\ IF ix > Len(list)
       THEN /\ bpc' = "done"
            /\ output' = output \cup {Line("", "done!")}
            /\ gpc' = [add |-> "pending", commit |-> "pending"]
            /\ UNCHANGED <<account, staged, committed>>
       ELSE /\ bpc' = "mkdir"
            /\ account' = AccountFor(list[ix])
            /\ UNCHANGED <<output, gitVars>>

UnchangedRestore ==
    UNCHANGED <<devices, nextId, devices0, calls, netFail, deviceVars, dashVars,
                unhandledRejections, platform, restoreVars, widgetVars, derivedVars,
                authVars>>

\* fsPromise.rm(currentDir, { recursive: true, force: true })
RemoveDir(d) ==
    /\ Running
    /\ d \in DOMAIN dirs /\ dirs[d] = "rm"
    /\ UnchangedRestore /\ UNCHANGED gitVars
    /\ UNCHANGED <<account, tenants, tenantIx, tenantAdmins, tenantTokens, cats,
                   tasks, got, output>>
    /\ \/ /\ tree' = RemoveDirectory(tree,
                        IF d = "tenants" THEN <<>> ELSE <<Current.name, d>>)
          /\ dirs' = [dirs EXCEPT ![d] = "mkdir"]
          /\ UNCHANGED <<bpc, faults>>
       \/ \* .catch(reject): the awaited Promise.all rejects
          /\ dirs' = [dirs EXCEPT ![d] = "rejected"]
          /\ bpc' = BackupRejects
          /\ faults' = faults \cup {Fault("rm", <<d, "", "">>)}
          /\ UNCHANGED tree

\* .then(() => { fsPromise.mkdir(currentDir).then(resolve) })
MakeDir(d) ==
    /\ Running
    /\ d \in DOMAIN dirs /\ dirs[d] = "mkdir"
    /\ dirs' = [dirs EXCEPT ![d] = "resolved"]
    /\ UnchangedRestore /\ UNCHANGED gitVars
    /\ UNCHANGED <<account, tree, bpc, tenants, tenantIx, tenantAdmins,
                   tenantTokens, cats, tasks, got, output, faults>>

\* the directories are wiped
WipeSettledMutant == TRUE
WipeSettled == \A d \in DOMAIN dirs : dirs[d] = "resolved"

\* after await Promise.all(dirs.map(...)): the category promises are created,
\* each issuing its list request (backupTenants for the system administrator)
AfterWipe ==
    /\ bpc \in {"sysWipe", "wipe"}
    /\ WipeSettled
    /\ bpc' = IF bpc = "sysWipe" THEN "tenants" ELSE "categories"
    /\ cats' = IF bpc = "sysWipe" THEN [c \in {"tenants"} |-> "list"]
               ELSE [c \in Categories |-> "list"]
    /\ UnchangedRestore /\ UNCHANGED gitVars
    /\ UNCHANGED <<account, tree, tenants, tenantIx, tenantAdmins, tenantTokens,
                   dirs, tasks, got, output, faults>>

\* the promises the answer of a list request starts: list.map(backupX)
Started(c, list) ==
    LET id == IF c = "tenants" THEN "" ELSE Current.id IN
    CASE c = "tenants" ->
            {<<"tenants", e.id, e.id>> : e \in list}
                \cup {<<"tenantUsers", e.id, e.id>> : e \in list}
      [] c = "customers" ->
            {<<"customers", id, e.id>> : e \in list}
                \cup {<<"customerUsers", id, e.id>> : e \in list}
      [] c = "widgets" -> {<<c, id, e.id>> : e \in {b \in list : OwnBundle(b)}}
      [] OTHER -> {<<c, id, e.id>> : e \in list}

\* api.getXs().then(({ data: { data: list } }) => { Promise.all(list.map(backupX))... })
\*              .catch(e => { console.log(e); reject(e) })
ListCategory(c) ==
    /\ Running
    /\ c \in DOMAIN cats /\ cats[c] = "list"
    /\ UnchangedRestore /\ UNCHANGED gitVars
    /\ UNCHANGED <<account, tree, tenantIx, tenantAdmins, tenantTokens, dirs>>
    /\ \/ LET list == IF c = "tenants" THEN TenantSet ELSE Listing(c)
              started == Started(c, list)
          IN  /\ cats' = [cats EXCEPT ![c] = "fanout"]
              /\ tenants' = IF c = "tenants" THEN platform.tenants ELSE tenants
              /\ tasks' = Extend(tasks, started, "fetch")
              /\ got' = IF c = "devices" THEN Extend(got, started, {}) ELSE got
              /\ UNCHANGED <<bpc, output, faults>>
       \/ /\ cats' = [cats EXCEPT ![c] = "rejected"]
          /\ bpc' = BackupRejects
          /\ output' = output \cup {Line(c, "error")}
          /\ faults' = faults \cup {Fault("list", <<c, "", "">>)}
          /\ UNCHANGED <<tenants, tasks, got>>

FetchedKinds ==
    {"ruleChains", "widgets", "dashboards", "customers", "users", "tenants", "admins"}

\* api.getXById(id).then(({ data }) => { fsPromise.writeFile(...).then(resolve) })
\*                 .catch(e => { console.log(e); reject(e) })
\* the answer of the body request (backupRuleChain, backupWidgetBundle,
\* backupDashboard, backupCustomer, backupCustomerUsers, backupTenant,
\* backupTenantUsers)
FetchBody(k) ==
    /\ Running
    /\ k \in DOMAIN tasks /\ tasks[k] = "fetch" /\ Kind(k) \in FetchedKinds
    /\ UnchangedRestore /\ UNCHANGED gitVars
    /\ UNCHANGED <<account, tree, tenants, tenantIx, tenantAdmins, tenantTokens,
                   dirs, cats, got>>
    /\ \/ /\ tasks' = [tasks EXCEPT ![k] = "write"]
          /\ UNCHANGED <<bpc, output, faults>>
       \/ \* the rejection reaches Promise.all(...).then(...), which has no handler
          /\ tasks' = [tasks EXCEPT ![k] = "rejected"]
          /\ bpc' = Unhandled(bpc)
          /\ output' = output \cup {Line(TenantId(k), "error")}
          /\ faults' = faults \cup {Fault("fetch", k)}

\* fsPromise.writeFile(path, JSON.stringify(data, undefined, 2)).then(resolve)
WriteBody(k) ==
    /\ Running
    /\ k \in DOMAIN tasks /\ tasks[k] = "write"
    /\ UnchangedRestore /\ UNCHANGED gitVars
    /\ UNCHANGED <<account, tenants, tenantIx, tenantAdmins, tenantTokens, dirs,
                   cats, got, output>>
    /\ \/ /\ tree' = WriteFile(tree, PathOf(k), FileContent(k))
          /\ tasks' = [tasks EXCEPT ![k] = "resolved"]
          /\ UNCHANGED <<bpc, faults>>
       \/ \* writeFile rejects: .then(resolve) has no handler, the promise of
          \* the entity never settles
          /\ tasks' = [tasks EXCEPT ![k] = "stuck"]
          /\ bpc' = Unhandled(bpc)
          /\ faults' = faults \cup {Fault("write", k)}
          /\ UNCHANGED tree

\* api.getEntityUsers(type, id).then(({ data: { data: users } }) => {
\*     tenantAdmins.set(tenant.id.id, users[0]?.id.id); fsPromise.mkdir(dir)... })
GetEntityUsers(k) ==
    /\ Running
    /\ k \in DOMAIN tasks /\ tasks[k] = "fetch"
    /\ Kind(k) \in {"customerUsers", "tenantUsers"}
    /\ UnchangedRestore /\ UNCHANGED gitVars
    /\ UNCHANGED <<account, tree, tenants, tenantIx, tenantTokens, dirs, cats, got>>
    /\ \/ /\ tasks' = [tasks EXCEPT ![k] = "mkdir"]
          /\ IF Kind(k) = "tenantUsers"
             THEN LET users == EntityUsers("tenant", EntityId(k)) IN
                  \E first \in IF users = {} THEN {"undefined"}
                               ELSE {u.id : u \in users} :
                      tenantAdmins' = Extend(tenantAdmins, {EntityId(k)}, first)
             ELSE UNCHANGED tenantAdmins
          /\ UNCHANGED <<bpc, output, faults>>
       \/ /\ tasks' = [tasks EXCEPT ![k] = "rejected"]
          /\ bpc' = Unhandled(bpc)
          /\ output' = output \cup {Line(TenantId(k), "error")}
          /\ faults' = faults \cup {Fault("fetch", k)}
          /\ UNCHANGED tenantAdmins

\* fsPromise.mkdir(dir).then(() => {
\*     Promise.all(users.map(user => { backupCustomerUsers(user, dir) })).then(resolve) })
\* the map callback returns nothing: Promise.all waits for no user promise
MakeUsersDir(k) ==
    /\ Running
    /\ k \in DOMAIN tasks /\ tasks[k] = "mkdir"
    /\ LET users == IF Kind(k) = "tenantUsers"
                    THEN EntityUsers("tenant", EntityId(k))
                    ELSE EntityUsers("customer", EntityId(k))
           kind == IF Kind(k) = "tenantUsers" THEN "admins" ELSE "users"
           started == {<<kind, TenantId(k), u.id>> : u \in users}
       IN  tasks' = [j \in DOMAIN tasks \cup started |->
                        IF j = k THEN "resolved"
                        ELSE IF j \in started THEN "fetch" ELSE tasks[j]]
    /\ UnchangedRestore /\ UNCHANGED gitVars
    /\ UNCHANGED <<account, tree, bpc, tenants, tenantIx, tenantAdmins,
                   tenantTokens, dirs, cats, got, output, faults>>

\* the four requests of backupDevice's Promise.all
DeviceParts == Scopes \cup {"credentials"}

\* Promise.all([getDeviceAttributesByScope x 3, getDeviceCredentials]).then(...)
\* one of the four answers arrives; there is no rejection handler at all
GetDevicePart(k, part) ==
    /\ Running
    /\ k \in DOMAIN tasks /\ tasks[k] = "fetch" /\ Kind(k) = "devices"
    /\ part \notin got[k]
    /\ UnchangedRestore /\ UNCHANGED gitVars
    /\ UNCHANGED <<account, tree, tenants, tenantIx, tenantAdmins, tenantTokens,
                   dirs, cats, output>>
    /\ \/ /\ got' = [got EXCEPT ![k] = @ \cup {part}]
          /\ tasks' = [tasks EXCEPT ![k] =
                IF got[k] \cup {part} = DeviceParts THEN "write" ELSE "fetch"]
          /\ UNCHANGED <<bpc, faults>>
       \/ /\ tasks' = [tasks EXCEPT ![k] = "stuck"]
          /\ bpc' = Unhandled(bpc)
          /\ faults' = faults \cup {Fault("fetch", k)}
          /\ UNCHANGED got

\* Promise.all(list.map(backupX)).then(() => { console.log('... completed!'); resolve() })
CompleteCategory(c) ==
    /\ Running
    /\ c \in DOMAIN cats /\ cats[c] = "fanout"
    /\ \A k \in FanOut(c) : tasks[k] = "resolved"
    /\ cats' = [cats EXCEPT ![c] = "resolved"]
    /\ output' = output \cup
          {Line(IF c = "tenants" THEN "" ELSE Current.id, CompletedLine[c])}
    /\ UnchangedRestore /\ UNCHANGED gitVars
    /\ UNCHANGED <<account, tree, bpc, tenants, tenantIx, tenantAdmins,
                   tenantTokens, dirs, tasks, got, faults>>

\* after await Promise.all([backupTenants]): one getUserToken per tenantAdmins entry
AfterTenants ==
    /\ bpc = "tenants"
    /\ cats["tenants"] = "resolved"
    /\ bpc' = "tokens"
    /\ tenantTokens' = [t \in DOMAIN tenantAdmins |-> <<>>]
    /\ UnchangedRestore /\ UNCHANGED gitVars
    /\ UNCHANGED <<account, tree, tenants, tenantIx, tenantAdmins, dirs, cats,
                   tasks, got, output, faults>>

\* api.getUserToken(adminId).then(({ data: { token } }) => { tenantTokens.set(...) })
\*                          .catch(e => { console.log(e); reject(e) })
GetUserToken(t) ==
    /\ Running
    /\ t \in DOMAIN tenantTokens /\ tenantTokens[t] = <<>>
    /\ UnchangedRestore /\ UNCHANGED gitVars
    /\ UNCHANGED <<account, tree, tenants, tenantIx, tenantAdmins, dirs, cats,
                   tasks, got>>
    /\ \/ /\ tenantAdmins[t] # "undefined"
          /\ tenantTokens' = [tenantTokens EXCEPT ![t] = Token(tenantAdmins[t])]
          /\ UNCHANGED <<bpc, output, faults>>
       \/ /\ tenantTokens' = [tenantTokens EXCEPT ![t] = <<"rejected">>]
          /\ bpc' = BackupRejects
          /\ output' = output \cup {Line(t, "error")}
          /\ faults' = faults \cup {Fault("token", <<t, "", "">>)}

\* after the await of the token requests: the loop over the tenants starts
AfterTokens ==
    /\ bpc = "tokens"
    /\ \A t \in DOMAIN tenantTokens : Len(tenantTokens[t]) > 1
    /\ LoopHead(tenants, 1)
    /\ UnchangedRestore
    /\ UNCHANGED <<tree, tenants, tenantAdmins, tenantTokens, dirs, cats, tasks,
                   got, faults>>

\* const { data: tenant } = await api.getTenantById(account.tenantId); tenants = [tenant]
GetTenant ==
    /\ bpc = "getTenant"
    /\ UnchangedRestore
    /\ UNCHANGED <<tree, tenantAdmins, tenantTokens, dirs, cats, tasks, got>>
    /\ \/ LET list == <<CHOOSE t \in TenantSet : t.id = account.tenantId>> IN
          /\ tenants' = list
          /\ LoopHead(list, 1)
          /\ UNCHANGED faults
       \/ /\ bpc' = BackupRejects
          /\ faults' = faults \cup {Fault("fetch", <<"tenants", "", "">>)}
          /\ UNCHANGED <<account, tenants, tenantIx, output, gitVars>>

\* await fsPromise.mkdir(tenantDir, { recursive: true }); then the five
\* directories are removed and made again
MakeTenantDir ==
    /\ bpc = "mkdir"
    /\ bpc' = "wipe"
    /\ dirs' = [d \in Categories |-> "rm"]
    /\ UnchangedRestore /\ UNCHANGED gitVars
    /\ UNCHANGED <<account, tree, tenants, tenantIx, tenantAdmins, tenantTokens,
                   cats, tasks, got, output, faults>>

\* after await Promise.all([backupRuleChains, ..., backupCustomers])
EndTenant ==
    /\ bpc = "categories"
    /\ \A c \in Categories : cats[c] = "resolved"
    /\ LoopHead(tenants, tenantIx + 1)
    /\ UnchangedRestore
    /\ UNCHANGED <<tree, tenants, tenantAdmins, tenantTokens, dirs, cats, tasks,
                   got, faults>>

\* --------------------------------------------- the export: initial states
Acme == <<"Acme">>
Beta == <<"Beta">>
Tenant1 == [id |-> "T1", name |-> Acme]
Tenant2 == [id |-> "T2", name |-> Beta]

\* a body as the platform answers it
Body(id, tenantId, name) ==
    [id |-> id, createdTime |-> "created", tenantId |-> tenantId, name |-> name]

SourceUser(id, tenantId, customerId, name) ==
    [id |-> id, createdTime |-> "created", tenantId |-> tenantId,
     customerId |-> customerId, name |-> name]

WidgetBundle(id, tenantId, title) ==
    [id |-> id, createdTime |-> "created", tenantId |-> tenantId, alias |-> title,
     title |-> title, widgetTypes |-> <<Body(id, tenantId, <<"gauge">>)>>]

TimedAttr(k, v) == [key |-> k, value |-> v, lastUpdateTs |-> "ts"]

SourceDevice(id, tenantId, name, token) ==
    [id |-> id, tenantId |-> tenantId, name |-> name,
     credentials |-> [id |-> "cred", deviceId |-> id,
                      credentialsType |-> "ACCESS_TOKEN",
                      credentialsId |-> token, credentialsValue |-> ""],
     attributes |-> [SERVER_SCOPE |-> <<TimedAttr("k", "new")>>,
                     SHARED_SCOPE |-> <<TimedAttr("k", "a"), TimedAttr("k", "b")>>,
                     CLIENT_SCOPE |-> <<>>]]

NoEntities(scope, list) ==
    [scope |-> scope, tenants |-> list, ruleChains |-> {}, widgets |-> {},
     dashboards |-> {}, devices |-> {}, customers |-> {}, users |-> {}]

TenantAdminSource == NoEntities("TENANT_ADMIN", <<Tenant1>>)

SourcePopulations ==
    { [TenantAdminSource EXCEPT
          !.dashboards = {Body("d1", "T1", <<"A">>), Body("d2", "T1", name)}] :
        name \in {<<"A">>, <<"B">>} }
    \cup
    { [TenantAdminSource EXCEPT
          !.ruleChains = {Body("r1", "T1", <<"A">>), Body("r2", "T1", <<"B">>)}],
      [TenantAdminSource EXCEPT
          !.devices = {SourceDevice("v1", "T1", D1, "tA")}],
      [TenantAdminSource EXCEPT
          !.widgets = {WidgetBundle("w1", "T1", <<"A">>),
                       WidgetBundle("w2", SystemTenant, <<"B">>)}],
      [TenantAdminSource EXCEPT
          !.customers = {Body("c1", "T1", <<"A">>)},
          !.users = {SourceUser("u1", "T1", "c1", <<"B">>)}],
      [NoEntities("SYS_ADMIN", <<Tenant1, Tenant2>>) EXCEPT
          !.users = {SourceUser("a1", "T1", SystemTenant, <<"A">>),
                     SourceUser("a2", "T2", SystemTenant, <<"B">>)},
          !.dashboards = {Body("d1", "T1", <<"A">>)},
          !.widgets = {WidgetBundle("w1", "T1", <<"A">>),
                       WidgetBundle("w2", SystemTenant, <<"B">>),
                       WidgetBundle("w3", "T2", <<"C">>)}],
      [NoEntities("SYS_ADMIN", <<Tenant1, Tenant2>>) EXCEPT
          !.users = {SourceUser("a1", "T1", SystemTenant, <<"A">>),
                     SourceUser("a2", "T2", SystemTenant, <<"B">>),
                     SourceUser("u1", "T1", "c1", <<"C">>)},
          !.customers = {Body("c1", "T1", <<"A">>)}],
      \* the second tenant has no admin user
      [NoEntities("SYS_ADMIN", <<Tenant1, Tenant2>>) EXCEPT
          !.users = {SourceUser("a1", "T1", SystemTenant, <<"A">>)},
          !.dashboards = {Body("d1", "T1", <<"A">>)}] }

\* the file an earlier export left in every category directory
Old == <<"old">>
StaleTree(list) ==
    [p \in {<<list[i].name, c, FileOf(Old)>> : i \in 1..Len(list), c \in Categories}
        |-> Body("old", list[1].id, Old)]

\* the account a login to the platform gives
SignedIn(source) ==
    IF source.scope = "SYS_ADMIN"
    THEN [scopes |-> <<"SYS_ADMIN">>, userId |-> "sysadmin", tenantId |-> SystemTenant]
    ELSE [scopes |-> <<"TENANT_ADMIN">>, userId |-> "admin", tenantId |-> "T1"]

\* the export of one installation: backup() after the repository is set up
ExportStart(source) ==
    /\ devices = <<>> /\ nextId = Null /\ devices0 = <<>>
    /\ devFiles = <<>> /\ dpc = <<>> /\ deviceId = <<>> /\ createErr = <<>>
    /\ credentials = <<>> /\ credSubmitted = <<>>
    /\ calls = {} /\ console = {} /\ run = 1 /\ netFail = FALSE
    /\ customers = <<>> /\ dashboards = <<>> /\ dashboards0 = <<>>
    /\ dashFiles = <<>> /\ kpc = <<>> /\ dashboard = <<>> /\ pending = <<>>
    /\ submitted = <<>>
    /\ unhandledRejections \in RejectionModes
    /\ NoRestoreCommand /\ NoWidgets /\ NoDerived
    /\ platform = source
    /\ tree = StaleTree(platform.tenants)
    /\ bpc = IF platform.scope = "SYS_ADMIN" THEN "sysWipe" ELSE "getTenant"
    /\ dirs = IF platform.scope = "SYS_ADMIN" THEN [d \in {"tenants"} |-> "rm"]
              ELSE <<>>
    /\ tenants = <<>> /\ tenantIx = 0
    /\ tenantAdmins = <<>> /\ tenantTokens = <<>>
    /\ cats = <<>> /\ tasks = <<>> /\ got = <<>>
    /\ output = {} /\ faults = {}

\* the export: the installation it starts from
ExportInputs == \E source \in SourcePopulations : ExportStart(source)

InitExport == ExportInputs /\ account = SignedIn(platform) /\ NoAuth /\ NoGit

NextExport ==
    \/ \E d \in Categories \cup {"tenants"} : RemoveDir(d)
    \/ \E d \in Categories \cup {"tenants"} : MakeDir(d)
    \/ AfterWipe
    \/ \E c \in Categories \cup {"tenants"} : ListCategory(c)
    \/ \E k \in DOMAIN tasks : FetchBody(k)
    \/ \E k \in DOMAIN tasks : WriteBody(k)
    \/ \E k \in DOMAIN tasks : GetEntityUsers(k)
    \/ \E k \in DOMAIN tasks : MakeUsersDir(k)
    \/ \E k \in DOMAIN tasks : \E part \in DeviceParts : GetDevicePart(k, part)
    \/ \E c \in Categories \cup {"tenants"} : CompleteCategory(c)
    \/ AfterTenants
    \/ \E t \in DOMAIN tenantTokens : GetUserToken(t)
    \/ AfterTokens
    \/ GetTenant
    \/ MakeTenantDir
    \/ EndTenant

SpecExport == InitExport /\ [][NextExport]_vars

\* ----------------------------------------------------- the widgets restore
WidgetFiles == DOMAIN widgetFiles

\* const widgetsBundleName = file.split('.').slice(0, -1).join('.')
WidgetsBundleNameOfFile(file) == Join(SliceButLast(Split(file, ".")), ".")

\* { alias: widgetsBundleName.toLowerCase(), image: null, title: widgetsBundleName }
WidgetsBundleOfFile(file) ==
    [alias |-> toLowerCase(WidgetsBundleNameOfFile(file)),
     image |-> "null",
     title |-> WidgetsBundleNameOfFile(file)]

\* delete widgetType.id; delete widgetType.createdTime; delete widgetType.tenantId
StripWidgetTypeMutant(widgetType) ==
    [k \in DOMAIN widgetType \ {"createdTime", "tenantId"} |-> widgetType[k]]
StripWidgetType(widgetType) ==
    [k \in DOMAIN widgetType \ {"id", "createdTime", "tenantId"} |-> widgetType[k]]

UnchangedByWidgets ==
    UNCHANGED <<devices, nextId, devices0, deviceVars, dashVars, unhandledRejections,
                exportVars, restoreVars, derivedVars, widgetFiles,
                authVars, gitVars>>

\* fsPromise.readFile(filePath, 'utf-8').then(async content => { JSON.parse(content);
\* await api.saveWidgetsBundle(...) : the callback starts and issues the request
ReadWidgetsFile(f) ==
    /\ wpc[f] = "read"
    /\ UnchangedByWidgets
    /\ UNCHANGED <<typeRequests, typesLeft, bundles, widgetTypes>>
    /\ \/ /\ ~Unparsable(widgetFiles[f])
          /\ wpc' = [wpc EXCEPT ![f] = "saveWidgetsBundle"]
          /\ UNCHANGED <<calls, netFail>>
       \/ \* JSON.parse throws inside the try: catch (e) {} ends the callback
          /\ Unparsable(widgetFiles[f])
          /\ wpc' = [wpc EXCEPT ![f] = "done"]
          /\ calls' = calls \cup {Failure(f, "parse")}
          /\ netFail' = TRUE
       \/ \* readFile rejects: the callback never runs
          /\ wpc' = UnhandledRejection(wpc, f)
          /\ calls' = calls \cup {Failure(f, "readFile")}
          /\ netFail' = TRUE

\* the answer of saveWidgetsBundle; then widgetTypes.forEach(async widgetType =>
\* { delete ...; await api.saveWidgetType(widgetType) }) issues every request
SaveWidgetsBundle(f) ==
    /\ wpc[f] = "saveWidgetsBundle"
    /\ UnchangedByWidgets
    /\ UNCHANGED widgetTypes
    /\ \/ LET types == widgetFiles[f].widgetTypes IN
          /\ bundles' = bundles \cup {WidgetsBundleOfFile(f)}
          /\ typeRequests' = [typeRequests EXCEPT ![f] =
                [i \in 1..Len(types) |-> StripWidgetType(types[i])]]
          /\ typesLeft' = [typesLeft EXCEPT ![f] = 1..Len(types)]
          /\ wpc' = [wpc EXCEPT ![f] =
                IF Len(types) = 0 THEN "done" ELSE "saveWidgetType"]
          /\ calls' = calls \cup {Call(f, "saveWidgetsBundle", "created")}
          /\ UNCHANGED netFail
       \/ \* the request fails: catch (e) {} ends the callback
          /\ wpc' = [wpc EXCEPT ![f] = "done"]
          /\ calls' = calls \cup {Call(f, "saveWidgetsBundle", "failed"),
                                  Failure(f, "saveWidgetsBundle")}
          /\ netFail' = TRUE
          /\ UNCHANGED <<typeRequests, typesLeft, bundles>>

\* the answer of one saveWidgetType; the async callback of forEach is awaited
\* by nobody, so its rejection has no handler
SaveWidgetType(f, i) ==
    /\ wpc[f] = "saveWidgetType"
    /\ i \in typesLeft[f]
    /\ UnchangedByWidgets
    /\ UNCHANGED <<typeRequests, bundles>>
    /\ typesLeft' = [typesLeft EXCEPT ![f] = @ \ {i}]
    /\ \/ /\ widgetTypes' = widgetTypes \cup {typeRequests[f][i]}
          /\ wpc' = [wpc EXCEPT ![f] = IF typesLeft[f] = {i} THEN "done" ELSE @]
          /\ UNCHANGED <<calls, netFail>>
       \/ /\ wpc' = IF unhandledRejections = "throw"
                    THEN [g \in DOMAIN wpc |->
                            IF wpc[g] = "done" \/ (g = f /\ typesLeft[f] = {i})
                            THEN "done" ELSE "exited"]
                    ELSE [wpc EXCEPT ![f] = IF typesLeft[f] = {i} THEN "done" ELSE @]
          /\ calls' = calls \cup {Failure(f, "saveWidgetType")}
          /\ netFail' = TRUE
          /\ UNCHANGED widgetTypes

\* ----------------------------------------------------- the restore command
\* const ALL_OPTIONS = ['dashboards', 'rulechains', 'widgets', 'devices']
ALL_OPTIONS == <<"dashboards", "rulechains", "widgets", "devices">>

Range(list) == {list[i] : i \in 1..Len(list)}

\* let options = ALL_OPTIONS.filter(option => cmdObj[option]);
\* options = options.length > 0 ? options : ALL_OPTIONS
OptionsMutant(flags) == ALL_OPTIONS
Options(flags) ==
    LET filtered == SelectSeq(ALL_OPTIONS, LAMBDA option : option \in flags)
    IN  IF Len(filtered) > 0 THEN filtered ELSE ALL_OPTIONS

\* the input directory itself, as an entry of `present`
InputDir == "."

\* path.join(dir, 'widgets') ... : the directory a section reads
DirectoryOf(section) == IF section = "rulechains" THEN "ruleChains" ELSE section

\* the sections of restore(), in the order of the code: each one is
\* if (options.includes(section)) { existsSync or exit; readdir(...).then(...) }
SectionsMutant == <<"rulechains", "widgets", "devices", "dashboards">>
Sections == <<"widgets", "devices", "dashboards">>

\* the sections the options select, in the order they run
Selected(options) == SelectSeq(Sections, LAMBDA section : section \in Range(options))

\* the first selected section whose directory is missing (0: none)
FirstMissingMutant(selected) == 0
FirstMissing(selected) ==
    IF \A i \in 1..Len(selected) : DirectoryOf(selected[i]) \in present THEN 0
    ELSE CHOOSE i \in 1..Len(selected) :
            /\ DirectoryOf(selected[i]) \notin present
            /\ \A j \in 1..(i - 1) : DirectoryOf(selected[j]) \in present

\* a rejection no handler takes has ended the process
ProcessEnded ==
    /\ unhandledRejections = "throw"
    /\ \E c \in calls : c.op = "failure" /\ c.arg \in {"readFile", "saveWidgetType"}

\* the callbacks of the restore run on while the process lives
ProcessAlive == rpc = "started" /\ ~ProcessEnded

\* restore(cmdObj.input, options) up to its return: the directory checks and,
\* per selected section, readdir and the readFile of every file it names
Restore ==
    /\ rpc = "restore"
    /\ UNCHANGED <<devices, nextId, devices0, unhandledRejections, exportVars,
                   derivedVars, cmdObj, present,
                   authVars, gitVars>>
    /\ UNCHANGED <<devFiles, deviceId, createErr, credentials, credSubmitted, run>>
    /\ UNCHANGED <<customers, dashboards, dashboards0, dashFiles, dashboard, pending,
                   submitted>>
    /\ UNCHANGED <<widgetFiles, typeRequests, typesLeft, bundles, widgetTypes>>
    /\ LET selected == Selected(Options(cmdObj))
           missing == FirstMissing(selected)
       IN  IF InputDir \notin present \/ missing > 0
           THEN \* process.exit(1) before any callback has run
                /\ rpc' = "exit"
                /\ listed' = IF InputDir \in present
                             THEN {DirectoryOf(selected[j]) : j \in 1..(missing - 1)}
                             ELSE {}
                /\ UNCHANGED <<dpc, kpc, wpc, calls, console, netFail>>
           ELSE /\ rpc' = "started"
                /\ listed' = {DirectoryOf(section) : section \in Range(selected)}
                /\ \E rejected \in SUBSET Range(selected) :
                      \* readdir of these rejects: .catch(e => { console.log(e) })
                      LET Start(pc, section) ==
                              IF section \in Range(selected) \ rejected
                              THEN [f \in DOMAIN pc |-> "read"] ELSE pc
                      IN  /\ wpc' = Start(wpc, "widgets")
                          /\ dpc' = Start(dpc, "devices")
                          /\ kpc' = Start(kpc, "dashboards")
                          /\ calls' = calls \cup
                                {Failure(<<section>>, "readdir") : section \in rejected}
                          /\ netFail' = (netFail \/ rejected # {})
                          /\ console' = console \cup
                                {Logged(<<section>>, "readdir") : section \in rejected}

\* a widget type of an exported bundle file
WidgetType(id, alias) ==
    [id |-> id, createdTime |-> 1000, tenantId |-> 61, bundleAlias |-> <<"b">>,
     alias |-> alias, name |-> alias]

\* a bundle file: the JSON array of its widget types
BundleFile(types) == [widgetTypes |-> types]
NotJsonWidgets == [syntaxError |-> TRUE, widgetTypes |-> <<>>]

WidgetDirectories ==
    { [f \in {<<"B", ".", "json">>} |-> content] :
        content \in {BundleFile(<<WidgetType(51, "gauge"), WidgetType(52, "chart")>>),
                     BundleFile(<<>>),
                     NotJsonWidgets} }

\* the directories a backup tree can hold below the input directory
CategoryDirectories == {"widgets", "devices", "dashboards"}

\* the restore command: the installation, the files and the command line it starts from
RestoreInputs ==
    /\ NoExport /\ NoDerived
    /\ unhandledRejections \in RejectionModes
    /\ cmdObj \in SUBSET Range(ALL_OPTIONS)
    /\ present \in {{}} \cup { {InputDir, "ruleChains"} \cup held :
                                held \in SUBSET CategoryDirectories }
    /\ rpc = "restore"
    /\ listed = {}
    /\ devices \in {<<>>, <<TargetDevice(1, D1, "ACCESS_TOKEN", "t1")>>}
    /\ nextId = Len(devices) + 1
    /\ devices0 = devices
    /\ devFiles = [f \in {FileOf(D1)} |->
                      [accessToken |-> "tA",
                       attributes |-> [server |-> <<Attr("k", "new")>>,
                                       shared |-> <<>>, client |-> <<>>]]]
    /\ dpc = [f \in DeviceFiles |-> "none"]
    /\ deviceId = [f \in DeviceFiles |-> Null]
    /\ createErr = [f \in DeviceFiles |-> Null]
    /\ credentials = [f \in DeviceFiles |-> NoCredentials]
    /\ credSubmitted = [f \in DeviceFiles |-> <<>>]
    /\ calls = {} /\ console = {} /\ run = 1 /\ netFail = FALSE
    /\ customers = <<>> /\ dashboards = <<>> /\ dashboards0 = <<>>
    /\ dashFiles = [f \in {<<"M", ".", "json">>} |->
                       DashboardBase([a1 |-> DeviceAlias(D1, 91)])]
    /\ kpc = [f \in DashboardFiles |-> "none"]
    /\ dashboard = [f \in DashboardFiles |-> <<>>]
    /\ pending = [f \in DashboardFiles |-> {}]
    /\ submitted = [f \in DashboardFiles |-> <<>>]
    /\ widgetFiles \in WidgetDirectories
    /\ wpc = [f \in WidgetFiles |-> "none"]
    /\ typeRequests = [f \in WidgetFiles |-> <<>>]
    /\ typesLeft = [f \in WidgetFiles |-> {}]
    /\ bundles = {} /\ widgetTypes = {}

InitRestore == RestoreInputs /\ NoAuth /\ NoGit

NextRestore ==
    \/ Restore
    \/ \E f \in WidgetFiles : ProcessAlive /\ ReadWidgetsFile(f)
    \/ \E f \in WidgetFiles : ProcessAlive /\ SaveWidgetsBundle(f)
    \/ \E f \in WidgetFiles : \E i \in typesLeft[f] : ProcessAlive /\ SaveWidgetType(f, i)
    \/ \E f \in DeviceFiles : ProcessAlive /\ ReadDeviceFile(f)
    \/ \E f \in DeviceFiles : ProcessAlive /\ SaveDevice(f)
    \/ \E f \in DeviceFiles : ProcessAlive /\ GetDevices(f)
    \/ \E f \in DeviceFiles : ProcessAlive /\ GetDeviceCredentials(f)
    \/ \E f \in DeviceFiles : ProcessAlive /\ SaveDeviceCredentials(f)
    \/ \E f \in DeviceFiles : ProcessAlive /\ SaveDeviceAttributes(f)
    \/ \E f \in DashboardFiles : ProcessAlive /\ ReadDashboardFile(f)
    \/ \E f \in DashboardFiles : \E key \in AliasKeys : ProcessAlive /\ ResolveAlias(f, key)
    \/ \E f \in DashboardFiles : ProcessAlive /\ SaveDashboard(f)

SpecRestore == InitRestore /\ [][NextRestore]_vars

\* ------------------------------------------------------- clone and label
\* the dashboards of the target a list request with this textSearch matches
\* (a dashboard is searched by its title)
DashboardsMatching(text) ==
    {d \in DOMAIN dashboards : TextSearchMatches(text, dashboards[d].title)}

\* if (!dashboards[0]) / if (!devices[0])
NotFoundMutant(page) == FALSE
NotFound(page) == Len(page) = 0

\* const clonedDashboardName = name || device.name (no option and '' are falsy)
ClonedDashboardNameMutant(name, device) == device.name
ClonedDashboardName(name, device) == IF name # <<>> THEN name ELSE device.name

UnchangedByDerived ==
    UNCHANGED <<devices, devices0, calls, devFiles, dpc, deviceId, createErr,
                credentials, credSubmitted, run, customers, dashboards0, dashFiles, kpc,
                dashboard, pending, submitted, unhandledRejections, exportVars,
                restoreVars, widgetVars, cmd, authVars, gitVars>>

\* const { data: { data: dashboards } } =
\*   await api.getDashboards({ pageSize: 1, textSearch: dashboardName });
\* if (!dashboards[0]) { console.log(...); process.exit(1) }
FindDashboard ==
    /\ cpc = "getDashboards"
    /\ UnchangedByDerived
    /\ UNCHANGED <<dashboards, nextId, posts>>
    /\ \/ \E page \in FirstPage(DashboardsMatching(toLowerCase(cmd.dashboardName))) :
            /\ IF NotFound(page)
               THEN /\ cpc' = "exit"
                    /\ console' = console \cup {Logged(cmd.dashboardName, "not found")}
                    /\ UNCHANGED local
               ELSE /\ cpc' = "getDevices"
                    /\ local' = [local EXCEPT !.dashboard =
                                    IF Len(page) = 0 THEN Null ELSE page[1]]
                    /\ UNCHANGED console
            /\ UNCHANGED netFail
       \/ \* the request fails: clone() / label() rejects
          /\ cpc' = "rejected"
          /\ netFail' = TRUE
          /\ UNCHANGED <<local, console>>

\* const { data: { data: devices } } =
\*   await api.getDevices({ pageSize: 1, textSearch: deviceName });
\* if (!devices[0]) { console.log(...); process.exit(1) }
FindDevice ==
    /\ cpc = "getDevices"
    /\ UnchangedByDerived
    /\ UNCHANGED <<dashboards, nextId, posts>>
    /\ \/ \E page \in FirstPage(DevicesMatching(toLowerCase(cmd.deviceName))) :
            /\ IF NotFound(page)
               THEN /\ cpc' = "exit"
                    /\ console' = console \cup {Logged(cmd.deviceName, "not found")}
                    /\ UNCHANGED local
               ELSE /\ cpc' = IF cmd.op = "clone" THEN "getDashboardById"
                              ELSE "getDeviceAttributes"
                    /\ local' = [local EXCEPT !.device =
                                    IF Len(page) = 0 THEN Null ELSE page[1]]
                    /\ UNCHANGED console
            /\ UNCHANGED netFail
       \/ /\ cpc' = "rejected"
          /\ netFail' = TRUE
          /\ UNCHANGED <<local, console>>

\* Object.keys(dashboardData.configuration.entityAliases)[0] exists and the
\* alias has a filter.singleEntity to assign to (else a TypeError)
HasFirstSingleEntityAlias(dashboardData) ==
    /\ Len(dashboardData.configuration.entityAliases) > 0
    /\ "singleEntity" \in DOMAIN dashboardData.configuration.entityAliases[1].value.filter

\* delete dashboardData.id
WithoutId(dashboardData) == [k \in DOMAIN dashboardData \ {"id"} |-> dashboardData[k]]

\* the body clone() posts: first alias and names rewritten, id deleted
ClonedBody(dashboardData, deviceId_, device, name) ==
    WithoutId(
      [dashboardData EXCEPT
          !.configuration.entityAliases[1].value.filter.singleEntity.id = deviceId_,
          !.configuration.entityAliases[1].value.alias = device.name,
          !.name = ClonedDashboardName(name, device),
          !.title = ClonedDashboardName(name, device),
          !.configuration.states.default.name = ClonedDashboardName(name, device)])

\* a JavaScript string that counts as false
Falsy(value) == value = ""

\* labels[key] ?? old : the old value only when the map has no entry
NullishCoalesce(labels, key, old) ==
    IF key \in DOMAIN labels THEN labels[key] ELSE old

\* labels[key] || old : the old value also when the entry is falsy
LogicalOr(labels, key, old) ==
    IF key \in DOMAIN labels /\ ~Falsy(labels[key]) THEN labels[key] ELSE old

\* valueKey || valueAttribute || method, read as a key of labels
SettingsKey(settings) ==
    IF "valueKey" \in DOMAIN settings /\ ~Falsy(settings.valueKey)
    THEN settings.valueKey
    ELSE IF "valueAttribute" \in DOMAIN settings /\ ~Falsy(settings.valueAttribute)
    THEN settings.valueAttribute
    ELSE IF "method" \in DOMAIN settings /\ ~Falsy(settings.method)
    THEN settings.method
    ELSE "undefined"

\* widget.type === 'latest' || 'timeseries' : the comparison, or else the
\* string 'timeseries', which is not falsy
LatestOrTimeseries(type) == type = "latest" \/ ~Falsy("timeseries")

\* the body of Object.keys(widgets).forEach for one widget
Relabel(widget, labels) ==
    IF widget.type = "rpc"
    THEN [widget EXCEPT
            !.config.showTitle = FALSE,
            !.config.settings.title =
                NullishCoalesce(labels, SettingsKey(widget.config.settings), @)]
    ELSE IF LatestOrTimeseries(widget.type)
    THEN LET datasources == widget.config.datasources IN
         IF Len(datasources) = 1
         THEN [widget EXCEPT
                 !.config.title =
                     LogicalOr(labels, datasources[1].dataKeys[1].name, @)]
         ELSE [widget EXCEPT
                 !.config.datasources =
                     [i \in 1..Len(datasources) |->
                        [datasources[i] EXCEPT
                           !.dataKeys =
                              [j \in 1..Len(datasources[i].dataKeys) |->
                                 [datasources[i].dataKeys[j] EXCEPT
                                    !.label = LogicalOr(labels,
                                                datasources[i].dataKeys[j].name, @)]]]]]
    ELSE widget

\* datasources[0].dataKeys[0] is undefined: reading its name is a TypeError
RelabelThrows(widget) ==
    /\ widget.type # "rpc"
    /\ LatestOrTimeseries(widget.type)
    /\ Len(widget.config.datasources) = 1
    /\ Len(widget.config.datasources[1].dataKeys) = 0

\* the body label() posts: dashboardData with its widgets relabelled
LabelledBodyMutant(dashboardData, labels) ==
    WithoutId([dashboardData EXCEPT
        !.configuration.widgets =
            [w \in DOMAIN dashboardData.configuration.widgets |->
                Relabel(dashboardData.configuration.widgets[w], labels)]])
LabelledBody(dashboardData, labels) ==
    [dashboardData EXCEPT
        !.configuration.widgets =
            [w \in DOMAIN dashboardData.configuration.widgets |->
                Relabel(dashboardData.configuration.widgets[w], labels)]]

\* the values api.getDeviceAttributes(id, ['LABELS']) answers with, one per
\* scope that holds the key
LabelsOf(device) ==
    {device.attributes[s]["LABELS"] :
        s \in {t \in DOMAIN device.attributes : "LABELS" \in DOMAIN device.attributes[t]}}

\* const { data: attributes } = await api.getDeviceAttributes(device.id.id, ['LABELS']);
\* const labels = attributes[0].value
GetDeviceAttributes ==
    /\ cpc = "getDeviceAttributes"
    /\ UnchangedByDerived
    /\ UNCHANGED <<dashboards, nextId, posts, console>>
    /\ \/ /\ LabelsOf(devices[local.device]) # {}
          /\ \E value \in LabelsOf(devices[local.device]) :
                local' = [local EXCEPT !.labels = value]
          /\ cpc' = "getDashboardById"
          /\ UNCHANGED netFail
       \/ \* attributes[0] is undefined: the TypeError rejects label()
          /\ LabelsOf(devices[local.device]) = {}
          /\ cpc' = "rejected"
          /\ UNCHANGED <<local, netFail>>
       \/ /\ cpc' = "rejected"
          /\ netFail' = TRUE
          /\ UNCHANGED local

\* const { data: dashboardData } = await api.getDashboardById(dashboard.id.id);
\* then the rewriting of dashboardData and axios.post('dashboard', dashboardData)
GetDashboardById ==
    /\ cpc = "getDashboardById"
    /\ UnchangedByDerived
    /\ UNCHANGED <<dashboards, nextId, console>>
    /\ \/ /\ local.dashboard \in DOMAIN dashboards /\ local.device \in DOMAIN devices
          /\ LET dashboardData == dashboards[local.dashboard]
                 throws ==
                    IF cmd.op = "clone"
                    THEN ~HasFirstSingleEntityAlias(dashboardData)
                    ELSE \E w \in DOMAIN dashboardData.configuration.widgets :
                            RelabelThrows(dashboardData.configuration.widgets[w])
                 body ==
                    IF cmd.op = "clone"
                    THEN ClonedBody(dashboardData, local.device, devices[local.device],
                                    cmd.name)
                    ELSE LabelledBody(dashboardData, local.labels)
             IN  IF throws
                 THEN /\ cpc' = "rejected"
                      /\ UNCHANGED <<local, posts>>
                 ELSE /\ cpc' = "post"
                      /\ local' = [local EXCEPT !.dashboardData = body]
                      /\ posts' = Append(posts, body)
          /\ UNCHANGED netFail
       \/ \* dashboard.id or device.id of an undefined value: a TypeError
          /\ ~(local.dashboard \in DOMAIN dashboards /\ local.device \in DOMAIN devices)
          /\ cpc' = "rejected"
          /\ UNCHANGED <<local, posts, netFail>>
       \/ /\ cpc' = "rejected"
          /\ netFail' = TRUE
          /\ UNCHANGED <<local, posts>>

\* the answer of await axios.post('dashboard', dashboardData)
PostDashboard ==
    /\ cpc = "post"
    /\ UnchangedByDerived
    /\ UNCHANGED <<local, posts, console>>
    /\ \/ /\ PlatformSaveDashboard(local.dashboardData)
          /\ cpc' = "done"
          /\ UNCHANGED netFail
       \/ /\ cpc' = "rejected"
          /\ netFail' = TRUE
          /\ UNCHANGED <<dashboards, nextId>>

\* ---- the commands and the targets the model runs them against
M == <<"M">>
M1 == <<"M", "1">>

\* the LABELS attribute a device can hold (NoLabels: the device has none)
NoLabels == [none |-> TRUE]
LabelMaps ==
    { [k \in {"k1"} |-> "L1"],
      [k \in {"k1"} |-> ""],
      [k \in {"k2"} |-> "L2"],
      [k \in {"k1", "k2"} |-> IF k = "k1" THEN "L1" ELSE "L2"] }

DeviceWithLabels(id, name, labels) ==
    [TargetDevice(id, name, "ACCESS_TOKEN", "t1") EXCEPT
        !.attributes = [s \in Scopes |->
                           IF s = "SERVER_SCOPE" /\ labels # NoLabels
                           THEN [k \in {"LABELS"} |-> labels] ELSE <<>>]]

DerivedDevicePopulations ==
    UNION { { <<DeviceWithLabels(1, D1, labels)>>,
              <<DeviceWithLabels(1, D1, labels),
                DeviceWithLabels(2, D10, [k \in {"k1"} |-> "L10"])>> } :
            labels \in LabelMaps \cup {NoLabels} }

\* an entry of entityAliases; the object keeps the order of its keys
AliasEntry(key, value) == [key |-> key, value |-> value]
EntityListAlias(name) ==
    [alias |-> name, filter |-> [type |-> "entityList", entityList |-> <<91>>]]
AliasLists ==
    { <<AliasEntry("a1", DeviceAlias(<<"D", "9">>, 91)),
        AliasEntry("a2", DeviceAlias(<<"D", "8">>, 92))>>,
      <<AliasEntry("a1", EntityListAlias(<<"D", "9">>))>>,
      <<>> }

DataKey(name, label) == [name |-> name, label |-> label]
Datasource(dataKeys) == [dataKeys |-> dataKeys]
Widget(type, settings, datasources) ==
    [type |-> type,
     config |-> [showTitle |-> TRUE, title |-> "old", settings |-> settings,
                 datasources |-> datasources]]

WidgetSets ==
    { [w \in {"w1", "w2", "w3", "w4"} |->
         CASE w = "w1" -> Widget("rpc", [valueKey |-> "k1", title |-> "old"], <<>>)
           [] w = "w2" -> Widget("latest", [title |-> "old"],
                                 <<Datasource(<<DataKey("k1", "old")>>)>>)
           [] w = "w3" -> Widget("timeseries", [title |-> "old"],
                                 <<Datasource(<<DataKey("k1", "old"), DataKey("k2", "old")>>),
                                   Datasource(<<DataKey("k2", "old")>>)>>)
           [] w = "w4" -> Widget("static", [title |-> "old"],
                                 <<Datasource(<<DataKey("k1", "old")>>)>>)],
      [w \in {"w1", "w2"} |->
         CASE w = "w1" -> Widget("rpc", [method |-> "k2", title |-> "old"], <<>>)
           [] w = "w2" -> Widget("alarm", [title |-> "old"], <<>>)],
      [w \in {"w1"} |-> Widget("latest", [title |-> "old"], <<Datasource(<<>>)>>)] }

TargetDashboard(id, title, aliases, widgets) ==
    [id |-> id, createdTime |-> 1000, tenantId |-> 61, name |-> title, title |-> title,
     configuration |-> [entityAliases |-> aliases,
                        states |-> [default |-> [name |-> title]],
                        widgets |-> widgets]]

DerivedDashboardPopulations ==
    UNION { { [d \in {11} |-> TargetDashboard(11, M, aliases, widgets)],
              [d \in {11, 12} |-> TargetDashboard(d, IF d = 11 THEN M ELSE M1,
                                                  aliases, widgets)] } :
            aliases \in AliasLists, widgets \in WidgetSets }

Commands ==
    { [op |-> op, dashboardName |-> dashboardName, deviceName |-> deviceName,
       name |-> name] :
        op \in {"clone", "label"}, dashboardName \in {M, <<"X">>},
        deviceName \in {D1, <<"X">>}, name \in {<<>>, <<"N">>} }

\* clone and label: the installation, the files and the command line it starts from
DerivedInputs ==
    /\ NoExport /\ NoRestoreCommand /\ NoWidgets
    /\ unhandledRejections \in RejectionModes
    /\ devices \in DerivedDevicePopulations
    /\ devices0 = devices
    /\ dashboards \in DerivedDashboardPopulations
    /\ dashboards0 = dashboards
    /\ nextId = 21
    /\ devFiles = <<>> /\ dpc = <<>> /\ deviceId = <<>> /\ createErr = <<>>
    /\ credentials = <<>> /\ credSubmitted = <<>>
    /\ calls = {} /\ console = {} /\ run = 1 /\ netFail = FALSE
    /\ customers = <<>> /\ dashFiles = <<>> /\ kpc = <<>> /\ dashboard = <<>>
    /\ pending = <<>> /\ submitted = <<>>
    /\ cmd \in {c \in Commands : c.op = "clone" \/ c.name = <<>>}
    /\ cpc = "getDashboards"
    /\ local = [dashboard |-> Null, device |-> Null, labels |-> <<>>,
                dashboardData |-> <<>>]
    /\ posts = <<>>

InitDerived == DerivedInputs /\ NoAuth /\ NoGit

NextDerived ==
    \/ FindDashboard
    \/ FindDevice
    \/ GetDeviceAttributes
    \/ GetDashboardById
    \/ PostDashboard

SpecDerived == InitDerived /\ [][NextDerived]_vars

\* ------------------------------------------------- the command's action
\* moment().unix() when auth() runs
Now == 1000
\* decodedToken.exp > moment().unix() + 60
TokenMargin == 60
\* decodedRefreshToken.exp > moment().unix() + 10
RefreshMargin == 10

\* a stored JSON web token: jwtDecode gives its payload
Jwt(exp, user) ==
    <<"jwt", [exp |-> exp, scopes |-> user.scopes, userId |-> user.userId,
              tenantId |-> user.tenantId]>>
DecodePayload(token) == token[2]

\* if (token) / else if (refreshToken): null when keytar holds no password
NoPassword == <<>>
Stored(password) == password # NoPassword

\* decodedToken.exp > moment().unix() + 60
TokenUsableMutant(token) == DecodePayload(token).exp > Now
TokenUsable(token) == DecodePayload(token).exp > Now + TokenMargin

\* decodedRefreshToken.exp > moment().unix() + 10
RefreshUsableMutant(refreshToken) == TRUE
RefreshUsable(refreshToken) == DecodePayload(refreshToken).exp > Now + RefreshMargin

\* setToken(token): account = jwtDecode(token), of type { scopes, userId, tenantId }
SetToken(token) ==
    LET decoded == DecodePayload(token)
    IN  [scopes |-> decoded.scopes, userId |-> decoded.userId,
         tenantId |-> decoded.tenantId]

\* the tokens POST /auth/token answers with
Refreshed(refreshToken) ==
    LET user == DecodePayload(refreshToken)
    IN  [token |-> Jwt(Now + 9000, user), refreshToken |-> Jwt(Now + 90000, user)]

UnchangedByAuth ==
    UNCHANGED <<devices, nextId, devices0, netFail, devFiles, dpc, deviceId,
                createErr, credentials, credSubmitted, run, dashVars,
                unhandledRejections, platform, tree, bpc, tenants, tenantIx,
                tenantAdmins, tenantTokens, dirs, cats, tasks, got, output, faults,
                restoreVars, widgetVars, derivedVars, gitVars, command>>

\* getBaseURL(); await auth() up to its first request or its return:
\* const token = await keytar.getPassword('tb-token', ...);
\* const refreshToken = await keytar.getPassword('tb-refresh-token', ...)
Auth ==
    /\ apc = "auth"
    /\ UnchangedByAuth
    /\ UNCHANGED <<keychain, calls>>
    /\ IF ~Stored(keychain.token)
       THEN \* console.log('You are not logged in. ...'); process.exit(1)
            /\ apc' = "exit"
            /\ console' = console \cup {Logged(<<>>, "not logged in")}
            /\ UNCHANGED account
       ELSE IF TokenUsable(keychain.token)
       THEN /\ apc' = "body"
            /\ account' = SetToken(keychain.token)
            /\ UNCHANGED console
       ELSE IF Stored(keychain.refreshToken) /\ RefreshUsable(keychain.refreshToken)
       THEN \* axios.post('/auth/token', { refreshToken })
            /\ apc' = "refresh"
            /\ UNCHANGED <<account, console>>
       ELSE \* await logout(); ...
            /\ apc' = "logout"
            /\ UNCHANGED <<account, console>>

\* const { data } = await axios.post('/auth/token', { refreshToken });
\* await keytar.setPassword(..., data.token);
\* await keytar.setPassword(..., data.refreshToken); setToken(data.token)
\* catch (e) { console.log('There is a problem ...'); process.exit(1) }
RefreshToken ==
    /\ apc = "refresh"
    /\ UnchangedByAuth
    /\ calls' = calls \cup {Call(<<>>, "auth/token", keychain.refreshToken)}
    /\ \/ /\ keychain' = Refreshed(keychain.refreshToken)
          /\ account' = SetToken(Refreshed(keychain.refreshToken).token)
          /\ apc' = "body"
          /\ UNCHANGED console
       \/ /\ apc' = "exit"
          /\ console' = console \cup {Logged(<<>>, "refresh problem")}
          /\ UNCHANGED <<keychain, account>>

\* logout(): await keytar.deletePassword('tb-token', ...);
\*           await keytar.deletePassword('tb-refresh-token', ...)
\* then console.log('Login token expired. ...'); process.exit(1)
Logout ==
    /\ apc \in {"logout", "deleted"}
    /\ UnchangedByAuth
    /\ UNCHANGED <<account, calls>>
    /\ IF apc = "logout"
       THEN /\ keychain' = [keychain EXCEPT !.token = NoPassword]
            /\ apc' = "deleted"
            /\ UNCHANGED console
       ELSE /\ keychain' = [keychain EXCEPT !.refreshToken = NoPassword]
            /\ apc' = "exit"
            /\ console' = console \cup {Logged(<<>>, "token expired")}

\* what keytar can hold for the host: nothing, or the tokens of a login
Keychains(user) ==
    { [token |-> t, refreshToken |-> r] :
        t \in {NoPassword} \cup {Jwt(e, user) : e \in {Now - 1, Now + TokenMargin,
                                                 Now + TokenMargin + 1}},
        r \in {NoPassword} \cup {Jwt(e, user) : e \in {Now - 1, Now + RefreshMargin,
                                                 Now + RefreshMargin + 1}} }

TenantAdmin == [scope |-> "TENANT_ADMIN"]

\* two small installations: a tenant with one device, and a system
\* administrator's with one tenant that has an admin
SmallSources ==
    { [TenantAdminSource EXCEPT !.devices = {SourceDevice("v1", "T1", D1, "tA")}],
      [NoEntities("SYS_ADMIN", <<Tenant1>>) EXCEPT
          !.users = {SourceUser("a1", "T1", SystemTenant, <<"A">>)}] }

\* program.command('backup' | 'restore' | 'clone' | 'label').action(...)
InitAuth ==
    /\ command \in {"backup", "restore", "clone", "label"}
    /\ apc = "auth"
    /\ NoGit
    /\ account = <<>>
    /\ CASE command = "backup" -> \E source \in SmallSources : ExportStart(source)
         [] command = "restore" ->
                /\ RestoreInputs
                /\ cmdObj = {}
                /\ present = {InputDir, "ruleChains"} \cup CategoryDirectories
                /\ devices # <<>>
                /\ Len(widgetFiles[<<"B", ".", "json">>].widgetTypes) > 0
         [] OTHER ->
                /\ DerivedInputs
                /\ cmd = [op |-> command, dashboardName |-> M, deviceName |-> D1,
                          name |-> <<>>]
    /\ keychain \in Keychains(SignedIn(IF command = "backup" THEN platform
                                        ELSE TenantAdmin))

\* getBaseURL(); await auth(); await backup(...) | restore(...) | clone(...) |
\* label(...): the body runs once auth() has returned
NextAuth ==
    \/ Auth
    \/ RefreshToken
    \/ Logout
    \/ apc = "body" /\ command = "backup" /\ NextExport
    \/ apc = "body" /\ command = "restore" /\ NextRestore
    \/ apc = "body" /\ command \in {"clone", "label"} /\ NextDerived

SpecAuth == InitAuth /\ [][NextAuth]_vars

\* ------------------------------------------------- the snapshot commit
UnchangedByGit ==
    UNCHANGED <<devices, nextId, devices0, calls, netFail, deviceVars, dashVars,
                unhandledRejections, account, platform, tree, tenants, tenantIx,
                tenantAdmins, tenantTokens, dirs, cats, tasks, got, output, faults,
                restoreVars, widgetVars, derivedVars, authVars>>

\* git.add({ fs, dir: baseDir, filepath: '.' }): the files of the tree are
\* staged; a rejection of the promise has no handler
GitAdd ==
    /\ Running
    /\ gpc # <<>> /\ gpc.add = "pending"
    /\ UnchangedByGit
    /\ UNCHANGED committed
    /\ \/ /\ staged' = tree
          /\ gpc' = [gpc EXCEPT !.add = "resolved"]
          /\ UNCHANGED bpc
       \/ /\ gpc' = [gpc EXCEPT !.add = "rejected"]
          /\ bpc' = Unhandled(bpc)
          /\ UNCHANGED staged

\* git.commit({ fs, dir: baseDir, message: `backup ...` }): the commit takes
\* the files staged at that moment; a rejection of the promise has no handler
GitCommit ==
    /\ Running
    /\ gpc # <<>> /\ gpc.commit = "pending"
    /\ UnchangedByGit
    /\ UNCHANGED staged
    /\ \/ /\ committed' = staged
          /\ gpc' = [gpc EXCEPT !.commit = "resolved"]
          /\ UNCHANGED bpc
       \/ /\ gpc' = [gpc EXCEPT !.commit = "rejected"]
          /\ bpc' = Unhandled(bpc)
          /\ UNCHANGED committed

\* the installations the snapshot is studied on: the two small ones and a
\* tenant with a customer that has a user
SnapshotSources ==
    SmallSources \cup
    { [TenantAdminSource EXCEPT
          !.customers = {Body("c1", "T1", <<"A">>)},
          !.users = {SourceUser("u1", "T1", "c1", <<"B">>)}] }

InitSnapshot ==
    /\ \E source \in SnapshotSources : ExportStart(source)
    /\ account = SignedIn(platform)
    /\ NoAuth /\ NoGit

\* backup() with the two git promises it leaves behind
NextSnapshot ==
    \/ NextExport
    \/ GitAdd
    \/ GitCommit

SpecSnapshot == InitSnapshot /\ [][NextSnapshot]_vars

\* ----------------------------------------- export, then restore (devices)
\* a device name with dots in it
DottedName == <<"D", ".", "1">>

\* a device of the source installation with these attributes per scope
RoundTripDevice(name, server, shared, client) ==
    [SourceDevice("v1", "T1", name, "tA") EXCEPT
        !.attributes = [SERVER_SCOPE |-> server, SHARED_SCOPE |-> shared,
                        CLIENT_SCOPE |-> client]]

RoundTripDevices ==
    { RoundTripDevice(name, server, shared, client) :
        name \in {D1, DottedName},
        server \in {<<>>, <<TimedAttr("k", "new")>>},
        shared \in {<<TimedAttr("a", "x"), TimedAttr("b", "y")>>},
        client \in {<<>>, <<TimedAttr("c", "z")>>} }

\* the installations exported: a tenant's with one device, and a system
\* administrator's with one tenant holding one device
RoundTripSources ==
    { [TenantAdminSource EXCEPT !.devices = {device}] : device \in RoundTripDevices }
    \cup
    { [NoEntities("SYS_ADMIN", <<Tenant1>>) EXCEPT
          !.users = {SourceUser("a1", "T1", SystemTenant, <<"A">>)},
          !.devices = {RoundTripDevice(DottedName, <<TimedAttr("k", "new")>>,
                                       <<>>, <<>>)}] }

\* the installations restored into
RoundTripTargets ==
    { <<>>, <<TargetDevice(1, D10, "ACCESS_TOKEN", "t1")>> }
    \cup { <<TargetDevice(1, name, "X509_CERTIFICATE", "t0")>> : name \in {D1, DottedName} }

\* the device files the export wrote for a tenant
ExportedDeviceFiles(tenant) ==
    {p[3] : p \in {q \in DOMAIN tree :
                     Len(q) = 3 /\ q[1] = tenant.name /\ q[2] = "devices"}}

\* restore(<tenantDir>, ['devices']) on the tree a finished backup left:
\* fsPromise.readdir(devicesDir).then(files => files.forEach(file =>
\*   fsPromise.readFile(path.join(devicesDir, file), 'utf-8').then(...)))
RestoreExported ==
    /\ bpc = "done" /\ devFiles = <<>>
    /\ \E tenant \in Range(tenants) :
          LET files == ExportedDeviceFiles(tenant) IN
          /\ files # {}
          /\ devFiles' = [f \in files |-> tree[<<tenant.name, "devices", f>>]]
          /\ dpc' = [f \in files |-> "read"]
          /\ deviceId' = [f \in files |-> Null]
          /\ createErr' = [f \in files |-> Null]
          /\ credentials' = [f \in files |-> NoCredentials]
          /\ credSubmitted' = [f \in files |-> <<>>]
    /\ \E target \in RoundTripTargets :
          /\ devices' = target
          /\ devices0' = target
          /\ nextId' = Len(target) + 1
    /\ UNCHANGED <<calls, netFail, console, run, dashVars, unhandledRejections,
                   exportVars, restoreVars, widgetVars, derivedVars, authVars,
                   gitVars>>

InitRoundTrip ==
    /\ \E source \in RoundTripSources : ExportStart(source)
    /\ account = SignedIn(platform)
    /\ NoAuth /\ NoGit

NextRoundTrip ==
    \/ NextExport
    \/ RestoreExported
    \/ \E f \in DeviceFiles : ReadDeviceFile(f)
    \/ \E f \in DeviceFiles : SaveDevice(f)
    \/ \E f \in DeviceFiles : GetDevices(f)
    \/ \E f \in DeviceFiles : GetDeviceCredentials(f)
    \/ \E f \in DeviceFiles : SaveDeviceCredentials(f)
    \/ \E f \in DeviceFiles : SaveDeviceAttributes(f)

SpecRoundTrip == InitRoundTrip /\ [][NextRoundTrip]_vars

\* ------------------------------------------------- claims, device restore
AllDeviceFilesDone == \A f \in DeviceFiles : dpc[f] = "done"
AttributeWrites(f) == {c \in calls : c.file = f /\ c.op = "saveDeviceAttributes"}
RepairCalls(f) ==
    {c \in calls : c.file = f /\ c.op \in {"getDevices", "getDeviceCredentials",
                                            "saveDeviceCredentials"}}

\* C1: after each run of the devices restore in which no request failed for a
\* reason other than a duplicate, the target holds exactly one device with the
\* name of each file, and that device's credentialsId is the file's accessToken.
C1_IdempotentDeviceRestore ==
    (AllDeviceFilesDone /\ ~netFail) =>
        \A f \in DeviceFiles :
            /\ Cardinality(DevicesNamed(DeviceNameOfFile(f))) = 1
            /\ \A d \in DevicesNamed(DeviceNameOfFile(f)) :
                  devices[d].credentials.credentialsId = devFiles[f].accessToken

\* C2: a file whose device creation failed with a code other than the
\* duplicate code has its error logged and issues no attribute write.
C2_FailedCreationSkipsAttributes ==
    \A f \in DeviceFiles :
        (createErr[f] # Null /\ createErr[f] # DuplicateCode) =>
            /\ Logged(f, "saveDevice") \in console
            /\ AttributeWrites(f) = {}

\* C3: a file issues a getDevices lookup, a credential read or a credential
\* write only after its device creation failed with error code 31.
C3_RepairOnlyOnDuplicate ==
    \A f \in DeviceFiles :
        (\/ RepairCalls(f) # {}
         \/ dpc[f] \in {"getDevices", "getDeviceCredentials", "saveDeviceCredentials"})
            => createErr[f] = DuplicateCode

C3_Witness ==
    \E f \in DeviceFiles :
        /\ createErr[f] = DuplicateCode
        /\ Call(f, "saveDeviceCredentials", "") \in calls
        /\ dpc[f] = "done"

\* C4: the credential posted on the duplicate path has the fields of the
\* credential read from the target, equal in every field but credentialsId,
\* which is the file's accessToken; the file creates no device on that path.
C4_OnlyCredentialsIdReplaced ==
    \A f \in DeviceFiles :
        /\ \A i \in 1..Len(credSubmitted[f]) :
             LET body == credSubmitted[f][i] IN
             /\ DOMAIN body = DOMAIN credentials[f]
             /\ body.credentialsId = devFiles[f].accessToken
             /\ \A field \in DOMAIN body \ {"credentialsId"} :
                   body[field] = credentials[f][field]
             /\ credentials[f] # NoCredentials
        /\ createErr[f] = DuplicateCode =>
             /\ Call(f, "saveDevice", "created") \notin calls
             /\ Cardinality(DevicesNamed(DeviceNameOfFile(f))) = 1

C4_Witness ==
    \E f \in DeviceFiles :
        /\ Len(credSubmitted[f]) = 1
        /\ credentials[f].credentialsType = "X509_CERTIFICATE"
        /\ credentials[f].credentialsId # devFiles[f].accessToken
        /\ devices[credentials[f].deviceId].credentials = credSubmitted[f][1]

\* C5: a file whose list for a scope is empty issues no attribute write for
\* that scope; when no file of the directory has a list for the scope, the
\* attributes the target held in that scope are unchanged.
C5_EmptyScopeNotWritten ==
    \A i \in 1..Len(ScopeOrder) :
        LET key == ScopeOrder[i]
            scope == ScopeName[key]
        IN  /\ \A f \in DeviceFiles :
                  Len(devFiles[f].attributes[key]) = 0 =>
                      Call(f, "saveDeviceAttributes", scope) \notin calls
            /\ (\A f \in DeviceFiles : Len(devFiles[f].attributes[key]) = 0) =>
                  \A d \in DOMAIN devices0 :
                      devices[d].attributes[scope] = devices0[d].attributes[scope]

C5_Witness ==
    \E f \in DeviceFiles :
        /\ dpc[f] = "done"
        /\ Len(devFiles[f].attributes.server) = 0
        /\ Call(f, "saveDeviceAttributes", "SHARED_SCOPE") \in calls
        /\ deviceId[f] \in DOMAIN devices0
        /\ devices[deviceId[f]].attributes["SERVER_SCOPE"] = [k \in {"k"} |-> "old"]
        /\ devices[deviceId[f]].attributes["SHARED_SCOPE"] = [k \in {"k"} |-> "b"]

\* --------------------------------------------- claims, dashboards restore
FileAliases(f) == dashFiles[f].configuration.entityAliases
\* the aliases of the file that are single-entity DEVICE aliases
FileDeviceAliases(f) ==
    {key \in DOMAIN FileAliases(f) :
        /\ FileAliases(f)[key].filter.type = "singleEntity"
        /\ FileAliases(f)[key].filter.singleEntity.entityType = "DEVICE"}
SubmittedAliasId(body, key) ==
    body.configuration.entityAliases[key].filter.singleEntity.id
CustomersTitled(title) == {c \in DOMAIN customers : customers[c].title = title}

\* C6: in every dashboard body submitted, a single-entity DEVICE alias named N
\* carries the id of the target's device whose display name is exactly N,
\* whatever other devices the target holds.
C6_ReferenceRewrite ==
    \A f \in DashboardFiles : \A i \in 1..Len(submitted[f]) :
        \A key \in FileDeviceAliases(f) :
            \A x \in DevicesNamed(FileAliases(f)[key].alias) :
                SubmittedAliasId(submitted[f][i], key) = x

\* C7: a dashboard file with a device alias whose name is the name of no device
\* of the target is still submitted once its callback has ended (no request
\* having failed), and the alias carries the id stored in the file.
C7_UnresolvableAliasKept ==
    \A f \in DashboardFiles :
        \A key \in FileDeviceAliases(f) :
            DevicesNamed(FileAliases(f)[key].alias) = {} =>
                /\ (kpc[f] = "done" /\ ~netFail) => Len(submitted[f]) = 1
                /\ \A i \in 1..Len(submitted[f]) :
                      SubmittedAliasId(submitted[f][i], key)
                          = FileAliases(f)[key].filter.singleEntity.id

\* C8: every reference of a submitted dashboard points at a target entity with
\* the matching display name: each alias at a device named as the alias, each
\* widget datasource at a device of the target, each assigned-customer block at
\* a customer with the block's title.
C8_AllReferencesRewritten ==
    \A f \in DashboardFiles : \A i \in 1..Len(submitted[f]) :
        LET body == submitted[f][i] IN
        /\ \A key \in DOMAIN body.configuration.entityAliases :
              SubmittedAliasId(body, key)
                  \in DevicesNamed(body.configuration.entityAliases[key].alias)
        /\ \A w \in DOMAIN body.configuration.widgets :
              body.configuration.widgets[w].deviceId \in DOMAIN devices
        /\ "assignedCustomers" \in DOMAIN body =>
              \A j \in 1..Len(body.assignedCustomers) :
                  body.assignedCustomers[j].customerId.id
                      \in CustomersTitled(body.assignedCustomers[j].title)

\* the blocks of a list whose title is the title of a customer of the target,
\* in order, each with that customer's id
RECURSIVE ResolvedBlocks(_)
ResolvedBlocks(list) ==
    IF Len(list) = 0 THEN <<>>
    ELSE LET head == list[1]
             rest == ResolvedBlocks(Tail(list))
         IN  IF CustomersTitled(head.title) = {} THEN rest
             ELSE <<[head EXCEPT !.customerId.id =
                        CHOOSE c \in CustomersTitled(head.title) : TRUE]>> \o rest

\* C9: whatever the number of blocks and the order in which the customer
\* lookups complete, a dashboard file with assignedCustomers is submitted once
\* its callback has ended (no request having failed), with exactly the blocks
\* whose title resolves, each with the live customer id.
C9_AssignedCustomersResolved ==
    \A f \in DashboardFiles :
        (kpc[f] = "done" /\ ~netFail /\ "assignedCustomers" \in DOMAIN dashFiles[f]) =>
            /\ Len(submitted[f]) = 1
            /\ submitted[f][1].assignedCustomers
                  = ResolvedBlocks(dashFiles[f].assignedCustomers)

\* C10: every submitted dashboard body lacks id, createdTime and tenantId, and
\* every dashboard the target held before the restore is unchanged.
C10_CreateOnly ==
    /\ \A f \in DashboardFiles : \A i \in 1..Len(submitted[f]) :
          DOMAIN submitted[f][i] \cap {"id", "createdTime", "tenantId"} = {}
    /\ \A d \in DOMAIN dashboards0 :
          d \in DOMAIN dashboards /\ dashboards[d] = dashboards0[d]

C10_Witness ==
    \E f \in DashboardFiles :
        /\ kpc[f] = "done" /\ ~netFail
        /\ Len(submitted[f]) = 1
        /\ dashFiles[f].id \in DOMAIN dashboards0
        /\ Cardinality({d \in DOMAIN dashboards :
                           dashboards[d].name = dashFiles[f].name}) = 2

\* ---------------------------------------------- claims, importer failures

\* C11: a read, parse or network failure met while one file of the restored
\* directory is processed never prevents another file of that directory from
\* being processed to its own outcome: no callback is cut off before its end.
C11_ImporterIsolation ==
    \A f \in DeviceFiles : dpc[f] # "exited"

\* C12: every failure met while a file's callback runs (parse error, failed
\* create, lookup, credential or attribute request) has its console record.
C12_EveryFailureLogged ==
    \A c \in calls :
        (c.op = "failure" /\ c.arg # "readFile") => Logged(c.file, c.arg) \in console

\* ------------------------------------------------------- claims, export
\* no step of the export is left: every request and file operation has been
\* answered and no continuation can run
ExportEnded == ~ENABLED NextExport

Done == Line("", "done!") \in output

\* the failures so far are failures of single entities of the categories:
\* a body or attribute fetch, or a file write
EntityFaultsOnly ==
    \A x \in faults : x.op \in {"fetch", "write"} /\ Kind(x.on) \in Categories

\* C13: when the fetch of one entity's body fails during the fan-out of the
\* rule chains or of the dashboards, every other entity of that category whose
\* own fetch and write do not fail is written to the Tree Store by the end.
C13_ExportSiblingIsolation ==
    ExportEnded =>
        \A k \in DOMAIN tasks : \A j \in DOMAIN tasks :
            ( /\ Kind(k) \in {"ruleChains", "dashboards"}
              /\ Kind(j) = Kind(k) /\ j # k
              /\ faults = {Fault("fetch", j)} )
            => (tasks[k] = "resolved" /\ PathOf(k) \in DOMAIN tree)

\* C14: an export in which only single entities fail (a body fetch, a file
\* write, a device attribute fetch) still ends with the overall completion
\* reported.
C14_ExportReportsCompletion ==
    (ExportEnded /\ faults # {} /\ EntityFaultsOnly) => Done

\* the files of one category directory of a tenant
CategoryFiles(tenant, c) ==
    {p \in DOMAIN tree : Len(p) = 3 /\ p[1] = tenant.name /\ p[2] = c}

Owned(c, tenant) == {e \in platform[c] : e.tenantId = tenant.id}

\* C15 (as stated): after a completed export the dashboards directory of a
\* tenant with N dashboards in the listing holds exactly N files.
C15_OneFilePerDashboard ==
    Done => \A t \in TenantSet :
        Cardinality(CategoryFiles(t, "dashboards"))
            = Cardinality(Owned("dashboards", t))

\* C15 (amended): after a completed export the dashboards directory of a
\* tenant holds exactly one file per distinct dashboard name of the listing.
C15_OneFilePerDashboardName ==
    Done => \A t \in TenantSet :
        CategoryFiles(t, "dashboards")
            = {<<t.name, "dashboards", e.name \o <<".", "json">> >> :
                  e \in Owned("dashboards", t)}

C15_Witness ==
    /\ Done
    /\ \E d \in platform.dashboards : \E e \in platform.dashboards :
          d.id # e.id /\ d.name = e.name /\ d.tenantId = e.tenantId

\* C16: after a completed export every file of the dashboards and rule chains
\* directories equals the live body of an entity of that name with id,
\* createdTime and tenantId removed.
C16_ExportedBodiesStripped ==
    Done => \A t \in TenantSet : \A c \in {"dashboards", "ruleChains"} :
        \A p \in CategoryFiles(t, c) :
            \E e \in Owned(c, t) :
                /\ p[3] = e.name \o <<".", "json">>
                /\ tree[p] = [field \in DOMAIN e \ {"id", "createdTime", "tenantId"}
                                 |-> e[field]]

\* C17: the five category directories of a tenant are removed and made again
\* before any entity of that tenant is fetched or written, and after a
\* completed export no category directory holds a file whose entity is absent
\* from the listing.
C17_FullSnapshot ==
    /\ \A k \in DOMAIN tasks :
          ( /\ Kind(k) \in Categories
            /\ tenantIx \in 1..Len(tenants)
            /\ TenantId(k) = tenants[tenantIx].id )
          => \A d \in Categories : dirs[d] = "resolved"
    /\ Done => \A t \in TenantSet : \A c \in Categories :
          \A p \in CategoryFiles(t, c) :
              \E e \in Owned(c, t) :
                  p[3] = (IF c = "widgets" THEN e.title ELSE e.name) \o <<".", "json">>

C17_Witness ==
    /\ Done
    /\ \E t \in TenantSet : CategoryFiles(t, "dashboards") # {}

\* C18: the file written for a device is { accessToken, attributes: { server,
\* shared, client } }; accessToken is the credentialsId of that device's
\* credential and every scope holds the device's attributes of that scope, in
\* order, without lastUpdateTs.
C18_DeviceFileShape ==
    \A k \in DOMAIN tasks :
        (Kind(k) = "devices" /\ tasks[k] = "resolved") =>
            LET device == CHOOSE d \in platform.devices : d.id = k[3]
                p == <<TenantName(k[2]), "devices", device.name \o <<".", "json">> >>
            IN  /\ p \in DOMAIN tree
                /\ DOMAIN tree[p] = {"accessToken", "attributes"}
                /\ tree[p].accessToken = device.credentials.credentialsId
                /\ DOMAIN tree[p].attributes = {"server", "shared", "client"}
                /\ \A key \in {"server", "shared", "client"} :
                      LET live == device.attributes[ScopeName[key]]
                          saved == tree[p].attributes[key]
                      IN  /\ Len(saved) = Len(live)
                          /\ \A i \in 1..Len(live) :
                                saved[i] = [key |-> live[i].key, value |-> live[i].value]

C18_Witness ==
    \E k \in DOMAIN tasks : Kind(k) = "devices" /\ tasks[k] = "resolved"

\* C19: in every export, the system administrator's over several tenants
\* included, a widget bundle written under a tenant's widgets directory has
\* the id of that tenant as its tenantId.
C19_WidgetTenantFilter ==
    \A k \in DOMAIN tasks :
        (Kind(k) = "widgets" /\ tasks[k] \in {"write", "resolved"}) =>
            (CHOOSE b \in platform.widgets : b.id = k[3]).tenantId = k[2]

C19_Witness ==
    /\ platform.scope = "SYS_ADMIN"
    /\ tenantIx = Len(tenants)
    /\ \E k \in DOMAIN tasks :
          Kind(k) = "widgets" /\ k[2] = tenants[tenantIx].id /\ tasks[k] = "resolved"

\* C20: a category (and the listing of the tenants with their admins) is
\* reported completed only when every fetch and every file write of its
\* fan-out is over, the per-user files of each customer and of each tenant's
\* admins included.
C20_CompletedAfterFanOut ==
    \A l \in output :
        /\ l.line = CompletedLine["customers"] =>
              \A k \in DOMAIN tasks :
                  (Kind(k) \in {"customers", "customerUsers", "users"} /\ k[2] = l.tenant)
                      => tasks[k] = "resolved"
        /\ l.line = CompletedLine["tenants"] =>
              \A k \in DOMAIN tasks :
                  Kind(k) \in {"tenants", "tenantUsers", "admins"}
                      => tasks[k] = "resolved"
        /\ \A c \in Categories \ {"customers"} :
              l.line = CompletedLine[c] =>
                  \A k \in DOMAIN tasks :
                      (Kind(k) = c /\ k[2] = l.tenant) => tasks[k] = "resolved"

\* the promises of the categories of a tenant, per-user promises included
CategoryKinds == Categories \cup {"customerUsers", "users"}

\* a step that issues a request for a category of tenant t: the list requests
\* when the category promises are created, the request of a promise when it
\* is created
IssuesFor(t) ==
    \/ bpc = "wipe" /\ bpc' = "categories" /\ tenants[tenantIx].id = t
    \/ \E k \in DOMAIN tasks' \ DOMAIN tasks : Kind(k) \in CategoryKinds /\ k[2] = t

\* C21: in a system administrator's export every request for a tenant's
\* categories is issued while the account in force is the one of the token
\* getUserToken issued for that tenant's admin.
C21_OwnTokenPerTenant ==
    [][\A i \in 1..Len(platform.tenants) :
          LET t == platform.tenants[i].id IN
          (platform.scope = "SYS_ADMIN" /\ IssuesFor(t)) =>
              /\ t \in DOMAIN tenantTokens
              /\ Len(tenantTokens[t]) = 2
              /\ tenantTokens[t][2] \in
                    {u.id : u \in {v \in platform.users :
                                      v.tenantId = t /\ v.customerId = "SYS"}}
              /\ account.tenantId = t
              /\ account.userId = tenantTokens[t][2]]_vars

C21_Witness ==
    /\ platform.scope = "SYS_ADMIN"
    /\ tenantIx = 2
    /\ \E k \in DOMAIN tasks : Kind(k) = "widgets" /\ k[2] = "T2"

\* the operations of a promise that are still in flight
InFlight == {"fetch", "write", "mkdir"}

\* C22: the account in force is never the next tenant's while an operation
\* of the previous tenant's fan-out (a request or a write, the per-user
\* fetches of its customers included) is still in flight.
C22_NoSwitchDuringFanOut ==
    \A k \in DOMAIN tasks :
        (Kind(k) \in CategoryKinds /\ tasks[k] \in InFlight) =>
            account.tenantId = k[2]

\* ------------------------------------------------ claims, restore command
\* the categories a command line asks for
Asked == IF cmdObj = {} THEN {"dashboards", "rulechains", "widgets", "devices"} ELSE cmdObj

\* a category's importer has not run and has submitted nothing
Untouched(category) ==
    CASE category = "widgets" ->
            /\ \A f \in WidgetFiles : wpc[f] = "none" /\ typeRequests[f] = <<>>
            /\ bundles = {} /\ widgetTypes = {}
            /\ "widgets" \notin listed
      [] category = "devices" ->
            /\ \A f \in DeviceFiles : dpc[f] = "none" /\ credSubmitted[f] = <<>>
            /\ \A c \in calls : c.file \notin DeviceFiles
            /\ devices = devices0
            /\ "devices" \notin listed
      [] category = "dashboards" ->
            /\ \A f \in DashboardFiles : kpc[f] = "none" /\ submitted[f] = <<>>
            /\ dashboards = dashboards0
            /\ "dashboards" \notin listed
      [] OTHER -> TRUE

NamedDashboards ==
    {d \in DOMAIN dashboards0 :
        TextSearchMatches(toLowerCase(cmd.dashboardName), dashboards0[d].title)}
NamedDevices ==
    {d \in DOMAIN devices0 :
        TextSearchMatches(toLowerCase(cmd.deviceName), devices0[d].name)}

OldWidgets == dashboards0[local.dashboard].configuration.widgets
PostedWidgets == posts[1].configuration.widgets

\* C28: label changes only widgets of kind rpc, latest or timeseries: a widget
\* of any other kind is posted as it was.
C28_OtherKindsUnchanged ==
    (cmd # <<>> /\ cmd.op = "label" /\ posts # <<>>) =>
        \A w \in DOMAIN OldWidgets :
            OldWidgets[w].type \notin {"rpc", "latest", "timeseries"} =>
                PostedWidgets[w] = OldWidgets[w]

\* the label a key gets: the map's value when the map has the key
Mapped(labels, key, old) == IF key \in DOMAIN labels THEN labels[key] ELSE old

\* C29: for every widget of kind rpc, latest or timeseries and every key label
\* handles for it (the settings key of an rpc widget, the first key of a sole
\* datasource, every key of several datasources), the posted label is the
\* map's value when the map has an entry for the key and the old label when
\* it has none.
C29_LabelFallback ==
    (cmd # <<>> /\ cmd.op = "label" /\ posts # <<>>) =>
        \A w \in DOMAIN OldWidgets :
            LET old == OldWidgets[w]
                new == PostedWidgets[w]
                datasources == old.config.datasources
            IN  CASE old.type = "rpc" ->
                        new.config.settings.title =
                            Mapped(local.labels, SettingsKey(old.config.settings),
                                   old.config.settings.title)
                  [] old.type \in {"latest", "timeseries"} /\ Len(datasources) = 1 ->
                        new.config.title =
                            Mapped(local.labels, datasources[1].dataKeys[1].name,
                                   old.config.title)
                  [] old.type \in {"latest", "timeseries"} /\ Len(datasources) # 1 ->
                        \A i \in 1..Len(datasources) :
                            \A j \in 1..Len(datasources[i].dataKeys) :
                                new.config.datasources[i].dataKeys[j].label =
                                    Mapped(local.labels, datasources[i].dataKeys[j].name,
                                           datasources[i].dataKeys[j].label)
                  [] OTHER -> TRUE

\* C30: a label that completes has posted a body with the id of the resolved
\* dashboard: the target holds the same dashboards as before, and only the
\* widgets of the resolved dashboard differ.
C30_LabelIsUpdate ==
    (cmd # <<>> /\ cmd.op = "label" /\ cpc = "done") =>
        /\ DOMAIN dashboards = DOMAIN dashboards0
        /\ "id" \in DOMAIN posts[1] /\ posts[1].id = local.dashboard
        /\ \A d \in DOMAIN dashboards0 \ {local.dashboard} :
              dashboards[d] = dashboards0[d]
        /\ [dashboards[local.dashboard] EXCEPT
                !.configuration.widgets = OldWidgets] = dashboards0[local.dashboard]

C30_Witness ==
    /\ cmd # <<>> /\ cmd.op = "label" /\ cpc = "done"
    /\ Cardinality(DOMAIN dashboards0) = 2
    /\ dashboards[local.dashboard] # dashboards0[local.dashboard]


\* ------------------------------------------- claims, the command's action
\* the token is absent or expires within the given number of seconds
ExpiresWithin(password, seconds) ==
    password = NoPassword \/ DecodePayload(password).exp <= Now + seconds

\* the body of the command has taken no step
BodyNotStarted ==
    CASE command = "backup" ->
            /\ bpc \in {"sysWipe", "getTenant"} /\ cats = <<>> /\ tasks = <<>>
            /\ tenants = <<>> /\ faults = {} /\ output = {}
            /\ \A d \in DOMAIN dirs : dirs[d] = "rm"
      [] command = "restore" ->
            /\ rpc = "restore" /\ listed = {}
            /\ devices = devices0 /\ dashboards = dashboards0
            /\ bundles = {} /\ widgetTypes = {}
            /\ \A c \in calls : c.op = "auth/token"
      [] OTHER ->
            /\ cpc = "getDashboards" /\ posts = <<>> /\ dashboards = dashboards0

\* C31: authentication failure is fatal. The body of backup, restore, clone
\* or label takes no step before auth() has returned, and it runs only with
\* a stored token that does not expire within 60 seconds: with no stored
\* token, or with an expiring token and a refresh token that is absent,
\* expires within 10 seconds or whose refresh call fails, the run ends at
\* process.exit(1) with the body untouched; a run that ends with the
\* token expiring and the refresh token absent or expiring has deleted both
\* stored tokens first.
C31_AuthFailureIsFatal ==
    /\ apc # "body" => BodyNotStarted
    /\ apc = "body" => ~ExpiresWithin(keychain.token, 60)
    /\ apc = "refresh" =>
            /\ keychain.token # NoPassword /\ ExpiresWithin(keychain.token, 60)
            /\ ~ExpiresWithin(keychain.refreshToken, 10)
    /\ (apc # "body" /\ ~ENABLED NextAuth) => apc = "exit"
    /\ apc = "exit" =>
            \/ keychain.token = NoPassword
            \/ /\ ~ExpiresWithin(keychain.refreshToken, 10)
               /\ Logged(<<>>, "refresh problem") \in console

\* both tokens had expired: the run ended with the keychain emptied and no
\* step of the backup taken
C31_Witness ==
    /\ command = "backup" /\ apc = "exit"
    /\ Logged(<<>>, "token expired") \in console
    /\ keychain = [token |-> NoPassword, refreshToken |-> NoPassword]
    /\ BodyNotStarted


\* -------------------------------------- claims, the device restore (scopes)
\* C32: the three attribute scopes of a device are restored independently.
\* Once the callback of a device file has ended with the device created or
\* located, a failed attribute write has not kept the write of any other
\* non-empty scope of the file from being issued.
C32_ScopesIndependent ==
    \A f \in DeviceFiles :
        (/\ dpc[f] = "done"
         /\ deviceId[f] \in DOMAIN devices
         /\ Failure(f, "saveDeviceAttributes") \in calls)
        => \A i \in 1..Len(ScopeOrder) :
              ScopeNonEmpty(devFiles[f].attributes[ScopeOrder[i]])
              => Call(f, "saveDeviceAttributes", ScopeName[ScopeOrder[i]]) \in calls


\* C33: on the duplicate path the device whose credential is posted and
\* whose attributes are written bears the file's device name exactly, and a
\* lookup that returned no device is followed by no credential and no
\* attribute write.
C33_ExactNameOnDuplicatePath ==
    \A f \in DeviceFiles :
        /\ \A i \in 1..Len(credSubmitted[f]) :
              devices[credSubmitted[f][i].deviceId].name = DeviceNameOfFile(f)
        /\ (createErr[f] = DuplicateCode /\ deviceId[f] \in DOMAIN devices)
              => devices[deviceId[f]].name = DeviceNameOfFile(f)
        /\ (createErr[f] = DuplicateCode /\ deviceId[f] = Null)
              => credSubmitted[f] = <<>> /\ AttributeWrites(f) = {}


\* ------------------------------------ claims, the restore command (again)
\* C34: devices and dashboards restored by one run into a target holding no
\* device. Once every callback has ended, no request having failed, each
\* submitted DEVICE alias that names a device of the backup carries the id
\* of the device this run created under that name.
C34_AliasOfCreatedDevice ==
    (/\ rpc = "started" /\ devices0 = <<>> /\ ~netFail
     /\ {"devices", "dashboards"} \subseteq Asked
     /\ \A f \in DeviceFiles : dpc[f] = "done"
     /\ \A f \in DashboardFiles : kpc[f] = "done")
    => \A f \in DashboardFiles : \A i \in 1..Len(submitted[f]) :
          \A key \in FileDeviceAliases(f) :
              LET name == FileAliases(f)[key].alias IN
              FileOf(name) \in DeviceFiles
              => /\ DevicesNamed(name) # {}
                 /\ SubmittedAliasId(submitted[f][i], key) \in DevicesNamed(name)


\* nothing has been created, updated or written in the target
NoWriteReached ==
    /\ devices = devices0 /\ dashboards = dashboards0
    /\ bundles = {} /\ widgetTypes = {}
    /\ calls = {}
    /\ \A f \in DeviceFiles : credSubmitted[f] = <<>>
    /\ \A f \in DashboardFiles : submitted[f] = <<>>
    /\ \A f \in WidgetFiles : typeRequests[f] = <<>>

\* the input directory, or the directory of a category restore was asked
\* for (widgets, devices, dashboards), is missing
DirectoryMissing ==
    \/ InputDir \notin present
    \/ \E category \in Asked \cap CategoryDirectories : category \notin present

\* C37: when the input directory or the directory of a selected category is
\* missing, restore() ends at process.exit(1), and from then on nothing has
\* been created, updated or written in the target and no callback of any
\* category has run, the categories whose check came first included.
C37_MissingDirectoryNoWrite ==
    /\ (DirectoryMissing /\ rpc # "restore") => rpc = "exit"
    /\ rpc = "exit" =>
          /\ DirectoryMissing
          /\ NoWriteReached
          /\ \A f \in WidgetFiles : wpc[f] = "none"
          /\ \A f \in DeviceFiles : dpc[f] = "none"
          /\ \A f \in DashboardFiles : kpc[f] = "none"

\* widgets and devices passed their check and were handed to readdir, the
\* dashboards directory is missing: the run has ended
C37_Witness ==
    /\ rpc = "exit"
    /\ present = {InputDir, "ruleChains", "widgets", "devices"}
    /\ listed = {"widgets", "devices"}
    /\ NoWriteReached


\* --------------------------------------------- claims, export (tenants)
\* C35: in a system administrator's export, when the only failure is that
\* no token could be issued for one tenant (it has no admin user, or the
\* request failed), the five categories of every other tenant have been
\* exported and reported completed by the end.
C35_TenantIsolation ==
    ExportEnded =>
        \A i \in 1..Len(tenants) : \A j \in 1..Len(tenants) :
            (i # j /\ faults = {Fault("token", <<tenants[i].id, "", "">>)})
            => \A c \in Categories :
                  Line(tenants[j].id, CompletedLine[c]) \in output


\* ------------------------------------------- claims, the snapshot commit
\* C38: when the backup has reported 'done!', the snapshot commit has
\* completed, the staging had finished, and the commit holds every file of
\* the backup tree with the content written during the run.
C38_DoneAfterCommit ==
    Done => /\ gpc.add = "resolved"
            /\ gpc.commit = "resolved"
            /\ committed = tree


\* ------------------------------------------------ claims, the round trip
\* the key/value pairs of a list of attribute items
Pairs(items) == {<<items[i].key, items[i].value>> : i \in 1..Len(items)}
\* the key/value pairs a device of the target holds in a scope
Held(d, scope) ==
    {<<k, devices[d].attributes[scope][k]>> : k \in DOMAIN devices[d].attributes[scope]}

\* C36: a device exported and restored, no request or file operation having
\* failed, into a target that had no device of its name: once the callback
\* of its file has ended the target holds exactly one device with the
\* exported display name (dots included), its credentialsId is the exported
\* credentialsId, and in every scope that was not empty it holds exactly the
\* exported key/value pairs.
C36_DeviceRoundTrip ==
    \A source \in platform.devices :
        (/\ devFiles # <<>> /\ AllDeviceFilesDone
         /\ faults = {} /\ ~netFail
         /\ \A d \in DOMAIN devices0 : devices0[d].name # source.name)
        => /\ Cardinality(DevicesNamed(source.name)) = 1
           /\ \A d \in DevicesNamed(source.name) :
                 /\ devices[d].credentials.credentialsId
                       = source.credentials.credentialsId
                 /\ \A scope \in Scopes :
                       source.attributes[scope] # <<>>
                       => Held(d, scope) = Pairs(source.attributes[scope])

\* a device with dots in its name and attributes in three scopes has made
\* the round trip into a target holding another device
C36_Witness ==
    /\ devFiles # <<>> /\ AllDeviceFilesDone /\ faults = {} /\ ~netFail
    /\ devices0 # <<>>
    /\ \E source \in platform.devices :
          /\ source.name = DottedName
          /\ \A scope \in Scopes : source.attributes[scope] # <<>>
          /\ \A d \in DOMAIN devices0 : devices0[d].name # source.name
          /\ \E d \in DevicesNamed(source.name) :
                \A scope \in Scopes : Held(d, scope) = Pairs(source.attributes[scope])

==========================================================================
